---------------------------- MODULE Spec2Model ----------------------------
(***************************************************************************)
(* Model of the condition-wait helpers of kubeclipper's e2e framework      *)
(* (test/framework/cluster/wait.go): the poll callbacks of the Wait...     *)
(* functions, the fetch-error handler, the retry classifier and the error  *)
(* taxonomy, driven by k8s.io/apimachinery's wait.PollImmediate.           *)
(*                                                                         *)
(* Time is counted in seconds since the start of the call.  A fetch and a  *)
(* predicate evaluation take no time; only the poll interval and the       *)
(* handler's retry delay let time pass.                                    *)
(***************************************************************************)
EXTENDS Integers, Sequences, FiniteSets, TLC

\* ------------------------------------------------------------------ bounds
\* Timeouts are the multiples of half a poll interval up to MaxHalfTicks.
MaxHalfTicks == 4
\* A fetched list holds at most MaxItems objects.
MaxItems == 2
\* A cluster snapshot carries at most MaxAddons add-ons.
MaxAddons == 1
\* One longer timeout, of several poll intervals.
LongTimeout == 60

\* --------------------------------------------------------------- constants
\* poll is how often to poll clusters (seconds).
poll == 15

\* ------------------------------------------------------------------ errors
\* The nil error.
Nil == [type |-> "nil"]

\* Reasons of the API errors the kc client hands back.
ApiReasons == {"NotFound", "InternalError", "TooManyRequests", "Forbidden", "BadRequest"}

ApiError(reason) == [type |-> "api", reason |-> reason]

\* Every error a fetch can return, nil excluded.
FetchErrors == {ApiError(r) : r \in ApiReasons}

\* apierror.IsNotFound / IsInternalError / IsTooManyRequests: classify an
\* error by its API reason; nil and non-API errors are in no class.
IsNotFound(err) == err.type = "api" /\ err.reason = "NotFound"

IsInternalError(err) == err.type = "api" /\ err.reason = "InternalError"

IsTooManyRequests(err) == err.type = "api" /\ err.reason = "TooManyRequests"

\* wait.ErrWaitTimeout, the poll library's timeout sentinel.
ErrWaitTimeout == [type |-> "ErrWaitTimeout"]

\* The error a predicate builds with fmt.Errorf.
Errorf(msg) == [type |-> "errorf", msg |-> msg]

\* fmt.Errorf("error while %s: %w", ..., err): an error wrapping err.
Wrap(err) == [type |-> "wrapped", cause |-> err]

\* TimeoutError(msg, observedObjects...): a *timeoutError value.
TimeoutError(observedObjects) ==
    [type |-> "timeoutError", observedObjects |-> observedObjects]

\* Faulty variant of IsTimeout: only the poll library's sentinel counts
\* as a timeout.
IsTimeout_SentinelOnly(err) == err = ErrWaitTimeout

\* IsTimeout(err)
IsTimeout(err) ==
    IF err = ErrWaitTimeout THEN TRUE
    ELSE IF err.type = "timeoutError" THEN TRUE
    ELSE FALSE

\* Faulty variant of maybeTimeoutError: a timeout is wrapped like any other
\* error instead of becoming a TimeoutError.
maybeTimeoutError_WrapsTimeout(err) ==
    IF err # Nil THEN Wrap(err) ELSE Nil

\* maybeTimeoutError(err, taskFormat, taskArgs...)
maybeTimeoutError(err) ==
    IF IsTimeout(err) THEN TimeoutError(<<>>)
    ELSE IF err # Nil THEN Wrap(err)
    ELSE Nil

\* Faulty variant of shouldRetry: too-many-requests is not retried.
shouldRetry_InternalOnly(err) ==
    IF IsInternalError(err)
    THEN [retry |-> TRUE, retryAfter |-> 0]
    ELSE [retry |-> FALSE, retryAfter |-> 0]

\* Faulty variant of shouldRetry: a retryable error asks for a delay of
\* two poll intervals.
shouldRetry_LongDelay(err) ==
    IF IsInternalError(err) \/ IsTooManyRequests(err)
    THEN [retry |-> TRUE, retryAfter |-> 2 * poll]
    ELSE [retry |-> FALSE, retryAfter |-> 0]

\* shouldRetry(err): (retry, retryAfter)
shouldRetry(err) ==
    IF IsInternalError(err) \/ IsTooManyRequests(err)
    THEN [retry |-> TRUE, retryAfter |-> 0]
    ELSE [retry |-> FALSE, retryAfter |-> 0]

\* The decision recorded when the classifier was not consulted.
NoDecision == [retry |-> FALSE, retryAfter |-> 0]

\* Faulty variant of handleWaitingAPIError: a non-retryable error is
\* ignored like a retryable one.
handleWaitingAPIError_SwallowsTerminal(err, retryNotFound) ==
    IF retryNotFound /\ IsNotFound(err)
    THEN [done |-> FALSE, err |-> Nil, slept |-> 0,
          classified |-> FALSE, decision |-> NoDecision]
    ELSE LET r == shouldRetry(err) IN
         [done |-> FALSE, err |-> Nil, slept |-> 0,
          classified |-> TRUE, decision |-> r]

\* Faulty variant of handleWaitingAPIError: a retryable error is returned
\* to the poll loop like a terminal one.
handleWaitingAPIError_RetryableIsTerminal(err, retryNotFound) ==
    IF retryNotFound /\ IsNotFound(err)
    THEN [done |-> FALSE, err |-> Nil, slept |-> 0,
          classified |-> FALSE, decision |-> NoDecision]
    ELSE LET r == shouldRetry(err) IN
         [done |-> FALSE, err |-> err, slept |-> 0,
          classified |-> TRUE, decision |-> r]

\* Faulty variant of handleWaitingAPIError: retryNotFound is not honoured,
\* so a not-found error goes to the classifier.
handleWaitingAPIError_NotFoundNotIgnored(err, retryNotFound) ==
    LET r == shouldRetry(err) IN
    IF r.retry
    THEN [done |-> FALSE, err |-> Nil,
          slept |-> IF r.retryAfter > 0 THEN r.retryAfter ELSE 0,
          classified |-> TRUE, decision |-> r]
    ELSE [done |-> FALSE, err |-> err, slept |-> 0,
          classified |-> TRUE, decision |-> r]

\* Faulty variant of handleWaitingAPIError: retryNotFound is not read, a
\* not-found error is always ignored.
handleWaitingAPIError_FlagIgnored(err, retryNotFound) ==
    IF IsNotFound(err)
    THEN [done |-> FALSE, err |-> Nil, slept |-> 0,
          classified |-> FALSE, decision |-> NoDecision]
    ELSE LET r == shouldRetry(err) IN
         IF r.retry
         THEN [done |-> FALSE, err |-> Nil,
               slept |-> IF r.retryAfter > 0 THEN r.retryAfter ELSE 0,
               classified |-> TRUE, decision |-> r]
         ELSE [done |-> FALSE, err |-> err, slept |-> 0,
               classified |-> TRUE, decision |-> r]

\* handleWaitingAPIError(err, retryNotFound, ...): the pair the callback
\* returns, the time slept before returning, whether the classifier was
\* consulted and what it decided.
handleWaitingAPIError(err, retryNotFound) ==
    IF retryNotFound /\ IsNotFound(err)
    THEN [done |-> FALSE, err |-> Nil, slept |-> 0,
          classified |-> FALSE, decision |-> NoDecision]
    ELSE LET r == shouldRetry(err) IN
         IF r.retry
         THEN [done |-> FALSE, err |-> Nil,
               slept |-> IF r.retryAfter > 0 THEN r.retryAfter ELSE 0,
               classified |-> TRUE, decision |-> r]
         ELSE [done |-> FALSE, err |-> err, slept |-> 0,
               classified |-> TRUE, decision |-> r]

\* ----------------------------------------------------------------- objects
\* A nil *corev1.Cluster / *corev1.Backup.
NilObj == [kind |-> "nil"]

Phases == {"Installing", "Running", "RestoreFailed"}

ComponentStatuses == {"Healthy", "Unhealthy"}

\* The component-condition lists a fetched cluster may carry.
ConditionLists ==
    {<<>>} \cup {<<[Name |-> "kubernetes", Status |-> s]>> : s \in ComponentStatuses}

\* The clusters DescribeCluster may list.
Clusters ==
    {[kind |-> "Cluster", Phase |-> p, ComponentConditions |-> c, Addons |-> a] :
        p \in Phases, c \in ConditionLists, a \in 0..MaxAddons}

BackupStatuses == {"creating", "available", "error"}

\* The backups ListBackupsWithCluster may list.
Backups ==
    {[kind |-> "Backup", Name |-> n, ClusterBackupStatus |-> s] :
        n \in {"b1", "b2"}, s \in BackupStatuses}

\* &corev1.Backup{}: the zero-valued backup.
EmptyBackup == [kind |-> "Backup", Name |-> "", ClusterBackupStatus |-> ""]

\* obj.DeepCopy(): a new object with the same field values.
DeepCopy(obj) == obj

\* The objects that may follow the first item of a fetched list.
MoreClusters ==
    {[kind |-> "Cluster", Phase |-> "Running",
      ComponentConditions |-> <<[Name |-> "kubernetes", Status |-> "Healthy"]>>,
      Addons |-> 0]}

MoreBackups ==
    {[kind |-> "Backup", Name |-> "b2", ClusterBackupStatus |-> "available"]}

\* Sequences over S of length at most n.
RECURSIVE SeqsUpTo(_, _)
SeqsUpTo(S, n) ==
    IF n <= 0 THEN {<<>>}
    ELSE LET shorter == SeqsUpTo(S, n - 1) IN
         shorter \cup {Append(s, x) : s \in {t \in shorter : Len(t) = n - 1}, x \in S}

\* The lists a successful fetch may return: empty, or a first item
\* followed by up to MaxItems - 1 further items.
Lists(firsts, more) ==
    {<<>>} \cup {<<o>> \o t : o \in firsts, t \in SeqsUpTo(more, MaxItems - 1)}

\* c.DescribeCluster(ctx, clusterName): a list or an error.
DescribeCluster ==
    {[err |-> Nil, Items |-> l] : l \in Lists(Clusters, MoreClusters)}
    \cup {[err |-> e, Items |-> <<>>] : e \in FetchErrors}

\* c.ListBackupsWithCluster(ctx, clusterName): a list or an error.
ListBackupsWithCluster ==
    {[err |-> Nil, Items |-> l] : l \in Lists(Backups, MoreBackups)}
    \cup {[err |-> e, Items |-> <<>>] : e \in FetchErrors}

\* Faulty variant of ClusterRunning: every phase other than Installing
\* counts as running.
ClusterRunning_NotInstalling(clu) == [done |-> clu.Phase # "Installing", err |-> Nil]

\* ---------------------------------------------------------------- conditions
\* The predicate of WaitForClusterRunning.
ClusterRunning(clu) == [done |-> clu.Phase = "Running", err |-> Nil]

\* Faulty variant of ClusterHealthyFrom: the scan goes on past a component
\* condition named "kubernetes" that is not Healthy.
RECURSIVE ClusterHealthyFrom_AnyEntry(_, _)
ClusterHealthyFrom_AnyEntry(conds, i) ==
    IF i > Len(conds) THEN [done |-> FALSE, err |-> Nil]
    ELSE IF conds[i].Name = "kubernetes" /\ conds[i].Status = "Healthy"
         THEN [done |-> TRUE, err |-> Nil]
         ELSE ClusterHealthyFrom_AnyEntry(conds, i + 1)

\* The predicate of WaitForClusterHealthy: the first component condition
\* named "kubernetes" decides.
RECURSIVE ClusterHealthyFrom(_, _)
ClusterHealthyFrom(conds, i) ==
    IF i > Len(conds) THEN [done |-> FALSE, err |-> Nil]
    ELSE IF conds[i].Name = "kubernetes"
         THEN [done |-> conds[i].Status = "Healthy", err |-> Nil]
         ELSE ClusterHealthyFrom(conds, i + 1)

ClusterHealthy(clu) == ClusterHealthyFrom(clu.ComponentConditions, 1)

\* Faulty variant of Recovery: a failed restore ends the wait with its
\* error.
Recovery_FailedIsDone(clu) ==
    IF clu.Phase = "Running" THEN [done |-> TRUE, err |-> Nil]
    ELSE IF clu.Phase = "RestoreFailed"
         THEN [done |-> TRUE, err |-> Errorf("recovery cluster failed")]
         ELSE [done |-> FALSE, err |-> Nil]

\* The predicate of WaitForRecovery.
Recovery(clu) ==
    IF clu.Phase = "Running" THEN [done |-> TRUE, err |-> Nil]
    ELSE IF clu.Phase = "RestoreFailed"
         THEN [done |-> FALSE, err |-> Errorf("recovery cluster failed")]
         ELSE [done |-> FALSE, err |-> Nil]

\* Faulty variant of BackupAvailable: a backup in status error ends the
\* wait with its error.
BackupAvailable_ErrorFailsEarly(backup) ==
    IF backup.ClusterBackupStatus = "available" THEN [done |-> TRUE, err |-> Nil]
    ELSE IF backup.ClusterBackupStatus = "error"
         THEN [done |-> TRUE, err |-> Errorf("backup create failed")]
         ELSE [done |-> FALSE, err |-> Nil]

\* The predicate of WaitForBackupAvailable.
BackupAvailable(backup) ==
    IF backup.ClusterBackupStatus = "available" THEN [done |-> TRUE, err |-> Nil]
    ELSE IF backup.ClusterBackupStatus = "error"
         THEN [done |-> FALSE, err |-> Errorf("backup create failed")]
         ELSE [done |-> FALSE, err |-> Nil]

\* What a caller-supplied clusterCondition / backupCondition may return.
AnyCondition == [done : BOOLEAN, err : {Nil, Errorf("condition failed")}]

\* The results condition(obj) may give for the predicate named cond.
Condition(cond, obj) ==
    CASE cond = "ClusterRunning" -> {ClusterRunning(obj)}
      [] cond = "ClusterHealthy" -> {ClusterHealthy(obj)}
      [] cond = "Recovery" -> {Recovery(obj)}
      [] cond = "BackupAvailable" -> {BackupAvailable(obj)}
      [] OTHER -> AnyCondition

\* The result recorded for a tick on which no predicate was evaluated.
NoCondition == [done |-> FALSE, err |-> Nil]

\* ----------------------------------------------------------- poll callbacks
\* Each callback maps the fetch result f (and the predicate's result p) to
\* the pair it returns to the poll loop, ret, and to the new values of the
\* variables it captures.

\* Faulty variant of ClusterConditionFunc: the error of a predicate that
\* returned done=false is returned to the poll loop.
ClusterConditionFunc_SoftErrorAborts(f, p, lastCluster) ==
    IF f.err # Nil \/ Len(f.Items) = 0
    THEN LET h == handleWaitingAPIError(f.err, TRUE) IN
         [ret |-> [done |-> h.done, err |-> h.err], slept |-> h.slept,
          lastCluster |-> lastCluster, lastClusterError |-> f.err,
          handled |-> TRUE, classified |-> h.classified, decision |-> h.decision,
          evaluated |-> FALSE]
    ELSE [ret |-> [done |-> p.done, err |-> p.err],
          slept |-> 0,
          lastCluster |-> DeepCopy(f.Items[1]), lastClusterError |-> f.err,
          handled |-> FALSE, classified |-> FALSE, decision |-> NoDecision,
          evaluated |-> TRUE]

\* Faulty variant of ClusterConditionFunc: the error of a predicate that
\* returned done=true is dropped.
ClusterConditionFunc_DoneDropsError(f, p, lastCluster) ==
    IF f.err # Nil \/ Len(f.Items) = 0
    THEN LET h == handleWaitingAPIError(f.err, TRUE) IN
         [ret |-> [done |-> h.done, err |-> h.err], slept |-> h.slept,
          lastCluster |-> lastCluster, lastClusterError |-> f.err,
          handled |-> TRUE, classified |-> h.classified, decision |-> h.decision,
          evaluated |-> FALSE]
    ELSE [ret |-> [done |-> p.done, err |-> Nil],
          slept |-> 0,
          lastCluster |-> DeepCopy(f.Items[1]), lastClusterError |-> f.err,
          handled |-> FALSE, classified |-> FALSE, decision |-> NoDecision,
          evaluated |-> TRUE]

\* Faulty variant of ClusterConditionFunc: a failed or empty fetch clears
\* the retained snapshot.
ClusterConditionFunc_FailedFetchClears(f, p, lastCluster) ==
    IF f.err # Nil \/ Len(f.Items) = 0
    THEN LET h == handleWaitingAPIError(f.err, TRUE) IN
         [ret |-> [done |-> h.done, err |-> h.err], slept |-> h.slept,
          lastCluster |-> NilObj, lastClusterError |-> f.err,
          handled |-> TRUE, classified |-> h.classified, decision |-> h.decision,
          evaluated |-> FALSE]
    ELSE [ret |-> IF p.done THEN [done |-> TRUE, err |-> p.err]
                  ELSE [done |-> FALSE, err |-> Nil],
          slept |-> 0,
          lastCluster |-> DeepCopy(f.Items[1]), lastClusterError |-> f.err,
          handled |-> FALSE, classified |-> FALSE, decision |-> NoDecision,
          evaluated |-> TRUE]

\* The callback of WaitForClusterCondition.
ClusterConditionFunc(f, p, lastCluster) ==
    IF f.err # Nil \/ Len(f.Items) = 0
    THEN LET h == handleWaitingAPIError(f.err, TRUE) IN
         [ret |-> [done |-> h.done, err |-> h.err], slept |-> h.slept,
          lastCluster |-> lastCluster, lastClusterError |-> f.err,
          handled |-> TRUE, classified |-> h.classified, decision |-> h.decision,
          evaluated |-> FALSE]
    ELSE [ret |-> IF p.done THEN [done |-> TRUE, err |-> p.err]
                  ELSE [done |-> FALSE, err |-> Nil],
          slept |-> 0,
          lastCluster |-> DeepCopy(f.Items[1]), lastClusterError |-> f.err,
          handled |-> FALSE, classified |-> FALSE, decision |-> NoDecision,
          evaluated |-> TRUE]

\* Faulty variant of BackupConditionFunc: an empty list counts as done, as
\* it does in WaitForBackupNotFound.
BackupConditionFunc_EmptyListIsDone(f, p, bp) ==
    IF f.err # Nil
    THEN LET h == handleWaitingAPIError(f.err, TRUE) IN
         [ret |-> [done |-> h.done, err |-> h.err], slept |-> h.slept,
          bp |-> bp,
          handled |-> TRUE, classified |-> h.classified, decision |-> h.decision,
          evaluated |-> FALSE]
    ELSE IF Len(f.Items) = 0
    THEN [ret |-> [done |-> TRUE, err |-> Nil], slept |-> 0,
          bp |-> bp,
          handled |-> FALSE, classified |-> FALSE, decision |-> NoDecision,
          evaluated |-> FALSE]
    ELSE [ret |-> IF p.done THEN [done |-> TRUE, err |-> p.err]
                  ELSE [done |-> FALSE, err |-> Nil],
          slept |-> 0,
          bp |-> DeepCopy(f.Items[1]),
          handled |-> FALSE, classified |-> FALSE, decision |-> NoDecision,
          evaluated |-> TRUE]

\* The callback of WaitForBackupCondition.
BackupConditionFunc(f, p, bp) ==
    IF f.err # Nil \/ Len(f.Items) = 0
    THEN LET h == handleWaitingAPIError(f.err, TRUE) IN
         [ret |-> [done |-> h.done, err |-> h.err], slept |-> h.slept,
          bp |-> bp,
          handled |-> TRUE, classified |-> h.classified, decision |-> h.decision,
          evaluated |-> FALSE]
    ELSE [ret |-> IF p.done THEN [done |-> TRUE, err |-> p.err]
                  ELSE [done |-> FALSE, err |-> Nil],
          slept |-> 0,
          bp |-> DeepCopy(f.Items[1]),
          handled |-> FALSE, classified |-> FALSE, decision |-> NoDecision,
          evaluated |-> TRUE]

\* Faulty variant of ClusterNotFoundFunc: not-found is not special-cased
\* and the handler is told not to ignore it.
ClusterNotFoundFunc_NotFoundIsError(f, lastCluster) ==
    IF f.err # Nil
    THEN LET h == handleWaitingAPIError(f.err, FALSE) IN
         [ret |-> [done |-> h.done, err |-> h.err], slept |-> h.slept,
          lastCluster |-> lastCluster,
          handled |-> TRUE, classified |-> h.classified, decision |-> h.decision,
          evaluated |-> FALSE]
    ELSE IF Len(f.Items) = 0
    THEN [ret |-> [done |-> FALSE, err |-> Nil], slept |-> 0,
          lastCluster |-> lastCluster,
          handled |-> FALSE, classified |-> FALSE, decision |-> NoDecision,
          evaluated |-> FALSE]
    ELSE [ret |-> [done |-> FALSE, err |-> Nil], slept |-> 0,
          lastCluster |-> DeepCopy(f.Items[1]),
          handled |-> FALSE, classified |-> FALSE, decision |-> NoDecision,
          evaluated |-> FALSE]

\* Faulty variant of ClusterNotFoundFunc: not-found is handed to the
\* handler like any other error, which ignores it and keeps polling.
ClusterNotFoundFunc_NotFoundRetried(f, lastCluster) ==
    IF f.err # Nil
    THEN LET h == handleWaitingAPIError(f.err, TRUE) IN
         [ret |-> [done |-> h.done, err |-> h.err], slept |-> h.slept,
          lastCluster |-> lastCluster,
          handled |-> TRUE, classified |-> h.classified, decision |-> h.decision,
          evaluated |-> FALSE]
    ELSE IF Len(f.Items) = 0
    THEN [ret |-> [done |-> FALSE, err |-> Nil], slept |-> 0,
          lastCluster |-> lastCluster,
          handled |-> FALSE, classified |-> FALSE, decision |-> NoDecision,
          evaluated |-> FALSE]
    ELSE [ret |-> [done |-> FALSE, err |-> Nil], slept |-> 0,
          lastCluster |-> DeepCopy(f.Items[1]),
          handled |-> FALSE, classified |-> FALSE, decision |-> NoDecision,
          evaluated |-> FALSE]

\* The callback of WaitForClusterNotFound.
ClusterNotFoundFunc(f, lastCluster) ==
    IF IsNotFound(f.err)
    THEN [ret |-> [done |-> TRUE, err |-> Nil], slept |-> 0,
          lastCluster |-> lastCluster,
          handled |-> FALSE, classified |-> FALSE, decision |-> NoDecision,
          evaluated |-> FALSE]
    ELSE IF f.err # Nil
    THEN LET h == handleWaitingAPIError(f.err, TRUE) IN
         [ret |-> [done |-> h.done, err |-> h.err], slept |-> h.slept,
          lastCluster |-> lastCluster,
          handled |-> TRUE, classified |-> h.classified, decision |-> h.decision,
          evaluated |-> FALSE]
    ELSE IF Len(f.Items) = 0
    THEN [ret |-> [done |-> FALSE, err |-> Nil], slept |-> 0,
          lastCluster |-> lastCluster,
          handled |-> FALSE, classified |-> FALSE, decision |-> NoDecision,
          evaluated |-> FALSE]
    ELSE [ret |-> [done |-> FALSE, err |-> Nil], slept |-> 0,
          lastCluster |-> DeepCopy(f.Items[1]),
          handled |-> FALSE, classified |-> FALSE, decision |-> NoDecision,
          evaluated |-> FALSE]

\* The callback of WaitForComponentNotFound.
ComponentNotFoundFunc(f, lastCluster) ==
    IF f.err # Nil
    THEN LET h == handleWaitingAPIError(f.err, TRUE) IN
         [ret |-> [done |-> h.done, err |-> h.err], slept |-> h.slept,
          lastCluster |-> lastCluster,
          handled |-> TRUE, classified |-> h.classified, decision |-> h.decision,
          evaluated |-> FALSE]
    ELSE IF Len(f.Items) = 0
    THEN [ret |-> [done |-> FALSE, err |-> Nil], slept |-> 0,
          lastCluster |-> lastCluster,
          handled |-> FALSE, classified |-> FALSE, decision |-> NoDecision,
          evaluated |-> FALSE]
    ELSE LET clu == DeepCopy(f.Items[1]) IN
         [ret |-> [done |-> clu.Addons = 0, err |-> Nil], slept |-> 0,
          lastCluster |-> clu,
          handled |-> FALSE, classified |-> FALSE, decision |-> NoDecision,
          evaluated |-> FALSE]

\* Faulty variant of BackupNotFoundFunc: a not-found fetch error counts as
\* done, as it does in WaitForClusterNotFound.
BackupNotFoundFunc_NotFoundIsDone(f, bp) ==
    IF IsNotFound(f.err)
    THEN [ret |-> [done |-> TRUE, err |-> Nil], slept |-> 0,
          bp |-> bp,
          handled |-> FALSE, classified |-> FALSE, decision |-> NoDecision,
          evaluated |-> FALSE]
    ELSE IF f.err # Nil
    THEN LET h == handleWaitingAPIError(f.err, TRUE) IN
         [ret |-> [done |-> h.done, err |-> h.err], slept |-> h.slept,
          bp |-> bp,
          handled |-> TRUE, classified |-> h.classified, decision |-> h.decision,
          evaluated |-> FALSE]
    ELSE IF Len(f.Items) = 0
    THEN [ret |-> [done |-> TRUE, err |-> Nil], slept |-> 0,
          bp |-> bp,
          handled |-> FALSE, classified |-> FALSE, decision |-> NoDecision,
          evaluated |-> FALSE]
    ELSE [ret |-> [done |-> FALSE, err |-> Nil], slept |-> 0,
          bp |-> DeepCopy(f.Items[1]),
          handled |-> FALSE, classified |-> FALSE, decision |-> NoDecision,
          evaluated |-> FALSE]

\* The callback of WaitForBackupNotFound.
BackupNotFoundFunc(f, bp) ==
    IF f.err # Nil
    THEN LET h == handleWaitingAPIError(f.err, TRUE) IN
         [ret |-> [done |-> h.done, err |-> h.err], slept |-> h.slept,
          bp |-> bp,
          handled |-> TRUE, classified |-> h.classified, decision |-> h.decision,
          evaluated |-> FALSE]
    ELSE IF Len(f.Items) = 0
    THEN [ret |-> [done |-> TRUE, err |-> Nil], slept |-> 0,
          bp |-> bp,
          handled |-> FALSE, classified |-> FALSE, decision |-> NoDecision,
          evaluated |-> FALSE]
    ELSE [ret |-> [done |-> FALSE, err |-> Nil], slept |-> 0,
          bp |-> DeepCopy(f.Items[1]),
          handled |-> FALSE, classified |-> FALSE, decision |-> NoDecision,
          evaluated |-> FALSE]

\* ------------------------------------------------------ after the poll loop
\* What each wait function returns once wait.PollImmediate returned err.

\* Faulty variant of ClusterConditionReturn: the error of the last fetch
\* is reported before the timeout with its snapshot.
ClusterConditionReturn_LastErrorFirst(err, lastCluster, lastClusterError) ==
    IF err = Nil THEN Nil
    ELSE IF lastClusterError # Nil THEN maybeTimeoutError(lastClusterError)
    ELSE IF IsTimeout(err) /\ lastCluster # NilObj
    THEN TimeoutError(<<lastCluster>>)
    ELSE maybeTimeoutError(err)

\* The rest of WaitForClusterCondition.
ClusterConditionReturn(err, lastCluster, lastClusterError) ==
    IF err = Nil THEN Nil
    ELSE IF IsTimeout(err) /\ lastCluster # NilObj
    THEN TimeoutError(<<lastCluster>>)
    ELSE maybeTimeoutError(IF lastClusterError # Nil THEN lastClusterError ELSE err)

BackupConditionReturn(err, bp) ==
    IF err = Nil THEN Nil
    ELSE IF IsTimeout(err) /\ bp # NilObj THEN TimeoutError(<<bp>>)
    ELSE maybeTimeoutError(err)

ClusterNotFoundReturn(err, lastCluster) ==
    IF err = Nil THEN Nil
    ELSE IF IsTimeout(err) /\ lastCluster # NilObj
    THEN TimeoutError(<<lastCluster>>)
    ELSE maybeTimeoutError(err)

ComponentNotFoundReturn(err, lastCluster) ==
    IF err = Nil THEN Nil
    ELSE IF IsTimeout(err) /\ lastCluster # NilObj
    THEN TimeoutError(<<lastCluster>>)
    ELSE maybeTimeoutError(err)

BackupNotFoundReturn(err, bp) ==
    IF err = Nil THEN Nil
    ELSE IF IsTimeout(err) /\ bp # NilObj THEN TimeoutError(<<bp>>)
    ELSE maybeTimeoutError(err)

\* ------------------------------------------------------------ the poll loop
\* wait.PollImmediate after one run of the callback: an error ends the poll
\* with that error, done ends it with nil, and a run made after the timeout
\* closed the ticker channel ends it with ErrWaitTimeout.
PollImmediate(ret, chClosed) ==
    IF ret.err # Nil THEN [returned |-> TRUE, err |-> ret.err]
    ELSE IF ret.done THEN [returned |-> TRUE, err |-> Nil]
    ELSE IF chClosed THEN [returned |-> TRUE, err |-> ErrWaitTimeout]
    ELSE [returned |-> FALSE, err |-> Nil]

\* ------------------------------------------------------------------- state
VARIABLES
    fn,                 \* the wait function called
    cond,               \* the predicate passed to it ("none" for the NotFound waits)
    timeout,            \* the timeout passed to it
    pc,                 \* "cond": about to run the callback; "wait": between
                        \* two runs; "returned": the wait function returned
    closed,             \* the timeout fired and closed the ticker channel
    elapsed,            \* time since the start of the call
    attempts,           \* number of fetches made
    tick,               \* what the latest run of the callback saw and returned
    lastCluster,        \* the cluster waits' retained snapshot
    lastClusterError,   \* WaitForClusterCondition: error of the latest fetch
    bp,                 \* the backup waits' retained snapshot
    pollErr,            \* what wait.PollImmediate returned
    result,             \* what the wait function returned
    observed,           \* history: the first item of the latest non-empty
                        \* list a fetch of this call returned, NilObj if none
    fetchedAt           \* history: the times at which the fetches started

vars == <<fn, cond, timeout, pc, closed, elapsed, attempts, tick,
          lastCluster, lastClusterError, bp, pollErr, result, observed,
          fetchedAt>>

\* The state of a single call of one of the package's helper functions,
\* used where a helper is examined on its own, outside a wait call.
VARIABLES
    op,                 \* the function called, "none" when no helper is examined
    args,               \* the arguments of the call
    out                 \* what the call returned, NotCalled before it ran

funcVars == <<op, args, out>>

\* The value of out before the call ran.
NotCalled == [type |-> "notCalled"]

\* No helper function is examined on its own.
NoCall == op = "none" /\ args = <<>> /\ out = NotCalled

\* The memory behind the pointers of a wait call, used where the identity
\* of the objects matters: which object a pointer refers to, and who else
\* holds a pointer to it.
VARIABLES
    heap,               \* address -> the object or slice stored there, Free if none
    fetched,            \* address of Items[0] of the latest fetched list, NilAddr if none
    retained,           \* address the wait retains (lastCluster / bp), NilAddr if nil
    carried,            \* address carried by the returned TimeoutError, NilAddr if none
    taken               \* history: the content of Items[0] at the time of its fetch

heapVars == <<heap, fetched, retained, carried, taken>>

\* A nil pointer.
NilAddr == 0

\* No pointers are examined.
NoHeap ==
    /\ heap = <<>>
    /\ fetched = NilAddr
    /\ retained = NilAddr
    /\ carried = NilAddr
    /\ taken = <<>>

\* The locals of several wait calls that run at the same time, used where
\* the calls are examined together.
VARIABLES
    calls,              \* call id -> the locals of that call
    hist                \* history: call id -> the fetch results the call received

concVars == <<calls, hist>>

\* No concurrent calls are examined.
NoCalls == calls = <<>> /\ hist = <<>>

\* The command-line programs of registry.go: the registry commands and the
\* agent server.
VARIABLES
    prog,               \* the program that runs
    o,                  \* the RegistryOptions of a registry command
    cpc,                \* the program's position
    step,               \* the number of steps the command's action has completed
    trace,              \* history: the calls the program made, in order, with what each returned
    status,             \* "running", "returned", "exited" or "panicked"
    cerr,               \* the error the program ended with, Nil when none
    stopCh              \* TRUE once the agent's stop channel delivered its signal

cliVars == <<prog, o, cpc, step, trace, status, cerr, stopCh>>

\* No command-line program runs.
NoCli ==
    /\ prog = "none"
    /\ o = <<>>
    /\ cpc = "end"
    /\ step = 0
    /\ trace = <<>>
    /\ status = "returned"
    /\ cerr = Nil
    /\ stopCh = FALSE

\* The variables that do not belong to a wait call.
others == <<funcVars, heapVars, concVars, cliVars>>

\* The variables that do not belong to a helper call examined alone.
notFunc == <<vars, heapVars, concVars, cliVars>>

\* The variables that do not belong to the memory of a wait call.
notHeap == <<vars, funcVars, concVars, cliVars>>

\* The variables that do not belong to the concurrent calls.
notConc == <<vars, funcVars, heapVars, cliVars>>

\* The variables that do not belong to a command-line program.
notCli == <<vars, funcVars, heapVars, concVars>>

ClusterFns == {"WaitForClusterCondition", "WaitForClusterNotFound", "WaitForComponentNotFound"}

BackupFns == {"WaitForBackupCondition", "WaitForBackupNotFound"}

ConditionFns == {"WaitForClusterCondition", "WaitForBackupCondition"}

Fns == ClusterFns \cup BackupFns

\* The predicates each wait function is called with.
CondsOf(f) ==
    CASE f = "WaitForClusterCondition" -> {"ClusterRunning", "ClusterHealthy", "Recovery", "Custom"}
      [] f = "WaitForBackupCondition" -> {"BackupAvailable", "Custom"}
      [] OTHER -> {"none"}

Timeouts == {(poll * k) \div 2 : k \in 1..MaxHalfTicks} \cup {LongTimeout}

\* The value of result and pollErr while the call is running.
Pending == [type |-> "pending"]

\* The value of tick before the first run of the callback.
NoTick ==
    [fetch |-> [err |-> Nil, Items |-> <<>>], handled |-> FALSE, classified |-> FALSE,
     decision |-> NoDecision, evaluated |-> FALSE, condition |-> NoCondition,
     ret |-> NoCondition]

\* Faulty variant of Init: the poll waits one interval before the first
\* run of the callback, as wait.Poll does.
Init_PollNotImmediate ==
    /\ fn \in Fns
    /\ cond \in CondsOf(fn)
    /\ timeout \in Timeouts
    /\ pc = "wait"
    /\ closed = FALSE
    /\ elapsed = 0
    /\ attempts = 0
    /\ tick = NoTick
    /\ lastCluster = NilObj
    /\ lastClusterError = Nil
    /\ bp = IF fn \in BackupFns THEN EmptyBackup ELSE NilObj
    /\ pollErr = Pending
    /\ result = Pending
    /\ observed = NilObj
    /\ fetchedAt = <<>>
    /\ NoCall
    /\ NoHeap
    /\ NoCalls
    /\ NoCli

\* The entry of a wait function, up to the call of wait.PollImmediate.
Init ==
    /\ fn \in Fns
    /\ cond \in CondsOf(fn)
    /\ timeout \in Timeouts
    /\ pc = "cond"
    /\ closed = FALSE
    /\ elapsed = 0
    /\ attempts = 0
    /\ tick = NoTick
    /\ lastCluster = NilObj
    /\ lastClusterError = Nil
    /\ bp = IF fn \in BackupFns THEN EmptyBackup ELSE NilObj
    /\ pollErr = Pending
    /\ result = Pending
    /\ observed = NilObj
    /\ fetchedAt = <<>>
    /\ NoCall
    /\ NoHeap
    /\ NoCalls
    /\ NoCli

\* The history of fetched items after a fetch returned f.
Observe(f) == IF f.err = Nil /\ Len(f.Items) > 0 THEN f.Items[1] ELSE observed

\* The record kept of a run of the callback.
TickOf(f, p, r) ==
    [fetch |-> f, handled |-> r.handled, classified |-> r.classified,
     decision |-> r.decision, evaluated |-> r.evaluated, condition |-> p,
     ret |-> r.ret]

\* The predicate results to draw for fetch result f: the predicate runs
\* only on the first item of a non-empty list fetched without error.
ConditionOn(f) ==
    IF f.err = Nil /\ Len(f.Items) > 0
    THEN Condition(cond, DeepCopy(f.Items[1]))
    ELSE {NoCondition}

\* One run of WaitForClusterCondition's callback and, when the poll ends
\* with it, the rest of the function.
WaitForClusterCondition ==
    /\ fn = "WaitForClusterCondition"
    /\ pc = "cond"
    /\ \E f \in DescribeCluster : \E p \in ConditionOn(f) :
         LET r == ClusterConditionFunc(f, p, lastCluster)
             q == PollImmediate(r.ret, closed)
         IN /\ attempts' = attempts + 1
            /\ observed' = Observe(f)
            /\ fetchedAt' = Append(fetchedAt, elapsed)
            /\ elapsed' = elapsed + r.slept
            /\ tick' = TickOf(f, p, r)
            /\ lastCluster' = r.lastCluster
            /\ lastClusterError' = r.lastClusterError
            /\ pc' = IF q.returned THEN "returned" ELSE "wait"
            /\ pollErr' = IF q.returned THEN q.err ELSE pollErr
            /\ result' = IF q.returned
                         THEN ClusterConditionReturn(q.err, r.lastCluster, r.lastClusterError)
                         ELSE result
    /\ UNCHANGED <<fn, cond, timeout, closed, bp>>
    /\ UNCHANGED others

\* One run of WaitForBackupCondition's callback and, when the poll ends
\* with it, the rest of the function.
WaitForBackupCondition ==
    /\ fn = "WaitForBackupCondition"
    /\ pc = "cond"
    /\ \E f \in ListBackupsWithCluster : \E p \in ConditionOn(f) :
         LET r == BackupConditionFunc(f, p, bp)
             q == PollImmediate(r.ret, closed)
         IN /\ attempts' = attempts + 1
            /\ observed' = Observe(f)
            /\ fetchedAt' = Append(fetchedAt, elapsed)
            /\ elapsed' = elapsed + r.slept
            /\ tick' = TickOf(f, p, r)
            /\ bp' = r.bp
            /\ pc' = IF q.returned THEN "returned" ELSE "wait"
            /\ pollErr' = IF q.returned THEN q.err ELSE pollErr
            /\ result' = IF q.returned THEN BackupConditionReturn(q.err, r.bp) ELSE result
    /\ UNCHANGED <<fn, cond, timeout, closed, lastCluster, lastClusterError>>
    /\ UNCHANGED others

\* One run of WaitForClusterNotFound's callback and, when the poll ends
\* with it, the rest of the function.
WaitForClusterNotFound ==
    /\ fn = "WaitForClusterNotFound"
    /\ pc = "cond"
    /\ \E f \in DescribeCluster :
         LET r == ClusterNotFoundFunc(f, lastCluster)
             q == PollImmediate(r.ret, closed)
         IN /\ attempts' = attempts + 1
            /\ observed' = Observe(f)
            /\ fetchedAt' = Append(fetchedAt, elapsed)
            /\ elapsed' = elapsed + r.slept
            /\ tick' = TickOf(f, NoCondition, r)
            /\ lastCluster' = r.lastCluster
            /\ pc' = IF q.returned THEN "returned" ELSE "wait"
            /\ pollErr' = IF q.returned THEN q.err ELSE pollErr
            /\ result' = IF q.returned
                         THEN ClusterNotFoundReturn(q.err, r.lastCluster)
                         ELSE result
    /\ UNCHANGED <<fn, cond, timeout, closed, lastClusterError, bp>>
    /\ UNCHANGED others

\* One run of WaitForComponentNotFound's callback and, when the poll ends
\* with it, the rest of the function.
WaitForComponentNotFound ==
    /\ fn = "WaitForComponentNotFound"
    /\ pc = "cond"
    /\ \E f \in DescribeCluster :
         LET r == ComponentNotFoundFunc(f, lastCluster)
             q == PollImmediate(r.ret, closed)
         IN /\ attempts' = attempts + 1
            /\ observed' = Observe(f)
            /\ fetchedAt' = Append(fetchedAt, elapsed)
            /\ elapsed' = elapsed + r.slept
            /\ tick' = TickOf(f, NoCondition, r)
            /\ lastCluster' = r.lastCluster
            /\ pc' = IF q.returned THEN "returned" ELSE "wait"
            /\ pollErr' = IF q.returned THEN q.err ELSE pollErr
            /\ result' = IF q.returned
                         THEN ComponentNotFoundReturn(q.err, r.lastCluster)
                         ELSE result
    /\ UNCHANGED <<fn, cond, timeout, closed, lastClusterError, bp>>
    /\ UNCHANGED others

\* One run of WaitForBackupNotFound's callback and, when the poll ends
\* with it, the rest of the function.
WaitForBackupNotFound ==
    /\ fn = "WaitForBackupNotFound"
    /\ pc = "cond"
    /\ \E f \in ListBackupsWithCluster :
         LET r == BackupNotFoundFunc(f, bp)
             q == PollImmediate(r.ret, closed)
         IN /\ attempts' = attempts + 1
            /\ observed' = Observe(f)
            /\ fetchedAt' = Append(fetchedAt, elapsed)
            /\ elapsed' = elapsed + r.slept
            /\ tick' = TickOf(f, NoCondition, r)
            /\ bp' = r.bp
            /\ pc' = IF q.returned THEN "returned" ELSE "wait"
            /\ pollErr' = IF q.returned THEN q.err ELSE pollErr
            /\ result' = IF q.returned THEN BackupNotFoundReturn(q.err, r.bp) ELSE result
    /\ UNCHANGED <<fn, cond, timeout, closed, lastCluster, lastClusterError>>
    /\ UNCHANGED others

\* Faulty variant of Tick: the next run of the callback starts without
\* waiting for the interval.
Tick_NoWait ==
    /\ pc = "wait"
    /\ elapsed + poll <= timeout
    /\ elapsed' = elapsed
    /\ pc' = "cond"
    /\ UNCHANGED <<fn, cond, timeout, closed, attempts, tick,
                   lastCluster, lastClusterError, bp, pollErr, result, observed,
                   fetchedAt>>
    /\ UNCHANGED others

\* wait.PollImmediate between two runs of the callback: the ticker fires
\* one interval after the previous run, no later than the timeout.
Tick ==
    /\ pc = "wait"
    /\ elapsed + poll <= timeout
    /\ elapsed' = elapsed + poll
    /\ pc' = "cond"
    /\ UNCHANGED <<fn, cond, timeout, closed, attempts, tick,
                   lastCluster, lastClusterError, bp, pollErr, result, observed,
                   fetchedAt>>
    /\ UNCHANGED others

\* Faulty variant of Close: when the timeout fires the poll returns
\* ErrWaitTimeout without running the callback once more.
Close_NoFinalRun ==
    /\ pc = "wait"
    /\ timeout <= elapsed + poll
    /\ elapsed' = IF elapsed > timeout THEN elapsed ELSE timeout
    /\ closed' = TRUE
    /\ pc' = "returned"
    /\ pollErr' = ErrWaitTimeout
    /\ result' =
         CASE fn = "WaitForClusterCondition" ->
                ClusterConditionReturn(ErrWaitTimeout, lastCluster, lastClusterError)
           [] fn = "WaitForBackupCondition" -> BackupConditionReturn(ErrWaitTimeout, bp)
           [] fn = "WaitForClusterNotFound" ->
                ClusterNotFoundReturn(ErrWaitTimeout, lastCluster)
           [] fn = "WaitForComponentNotFound" ->
                ComponentNotFoundReturn(ErrWaitTimeout, lastCluster)
           [] OTHER -> BackupNotFoundReturn(ErrWaitTimeout, bp)
    /\ UNCHANGED <<fn, cond, timeout, attempts, tick,
                   lastCluster, lastClusterError, bp, observed, fetchedAt>>
    /\ UNCHANGED others

\* wait.PollImmediate between two runs of the callback: the timeout fires
\* no later than the next tick and closes the channel; the callback runs
\* once more.
Close ==
    /\ pc = "wait"
    /\ timeout <= elapsed + poll
    /\ elapsed' = IF elapsed > timeout THEN elapsed ELSE timeout
    /\ closed' = TRUE
    /\ pc' = "cond"
    /\ UNCHANGED <<fn, cond, timeout, attempts, tick,
                   lastCluster, lastClusterError, bp, pollErr, result, observed,
                   fetchedAt>>
    /\ UNCHANGED others

Next ==
    \/ WaitForClusterCondition
    \/ WaitForBackupCondition
    \/ WaitForClusterNotFound
    \/ WaitForComponentNotFound
    \/ WaitForBackupNotFound
    \/ Tick
    \/ Close

Spec == Init /\ [][Next]_vars

\* ------------------------------------------------------------- properties
\* The errors the classifier is documented to retry.
TransientErrors == {ApiError("InternalError"), ApiError("TooManyRequests")}

\* The fetch errors that are neither not-found nor transient.
TerminalErrors == {ApiError("Forbidden"), ApiError("BadRequest")}

NotFoundError == ApiError("NotFound")

\* The callback ran at least once, so tick describes its latest run.
Polled == attempts > 0

Returned == pc = "returned"

\* The call ended because the deadline expired.
EndedByDeadline == Returned /\ closed /\ pollErr = ErrWaitTimeout

\* The snapshot the called function retains.
Retained == IF fn \in BackupFns THEN bp ELSE lastCluster

\* The latest run evaluated the predicate, which returned (false, err # nil).
SoftError ==
    Polled /\ tick.evaluated /\ ~tick.condition.done /\ tick.condition.err # Nil

\* C1: in WaitForClusterCondition and WaitForBackupCondition a predicate
\* result (false, err # nil) never ends the wait: the callback returns
\* (false, nil) and the loop goes on unless the deadline has expired; and a
\* returned wait ended by done=true, by a terminal fetch error or by the
\* deadline.
C1_SoftErrorDoesNotEndWait ==
    fn \in ConditionFns =>
        /\ SoftError =>
             /\ tick.ret = [done |-> FALSE, err |-> Nil]
             /\ (Returned => EndedByDeadline)
        /\ Returned =>
             \/ tick.evaluated /\ tick.condition.done
             \/ tick.fetch.err \in TerminalErrors /\ pollErr = tick.fetch.err
             \/ EndedByDeadline

\* A second run of a condition wait's callback saw a soft error twice over
\* and the loop still goes on.
C1_Witness ==
    /\ fn \in ConditionFns
    /\ attempts >= 2
    /\ SoftError
    /\ pc = "wait"

\* The latest run evaluated the predicate, which returned done=true.
ConditionDone == Polled /\ tick.evaluated /\ tick.condition.done

C3_TerminalFetchErrorEndsWait ==
    (Polled /\ tick.fetch.err \in TerminalErrors) =>
        /\ Returned
        /\ pollErr = tick.fetch.err
        /\ result = Wrap(tick.fetch.err)
        /\ ~IsTimeout(result)
        /\ ~tick.evaluated

\* A terminal fetch error arrived after a snapshot had been retained.
C3_Witness ==
    /\ Polled
    /\ tick.fetch.err \in TerminalErrors
    /\ attempts >= 2
    /\ observed # NilObj
    /\ Retained = observed
    /\ Returned

\* C4: when the wait ends by deadline expiry and some fetch of the call
\* returned a non-empty list, the wait returns a TimeoutError carrying the
\* retained snapshot, whatever the last fetch returned.
C4_TimeoutCarriesSnapshot ==
    (EndedByDeadline /\ observed # NilObj) =>
        /\ IsTimeout(result)
        /\ result = TimeoutError(<<Retained>>)
        /\ Retained # NilObj

\* The deadline expired on a run whose fetch failed, after an earlier fetch
\* had returned an object.
C4_Witness ==
    /\ EndedByDeadline
    /\ observed # NilObj
    /\ tick.fetch.err # Nil
    /\ result.type = "timeoutError"

\* C5 as stated: when the deadline expires and no fetch ever returned a
\* non-empty list, the wait returns a plain wrapped error, never a
\* TimeoutError.
C5_NoSnapshotNoTimeoutError ==
    (EndedByDeadline /\ observed = NilObj) =>
        /\ ~IsTimeout(result)
        /\ result.type = "wrapped"

\* C5 as amended: when the deadline expires and no fetch ever returned a
\* non-empty list, the returned error carries no fetched object.
\* WaitForClusterCondition returns its last fetch error wrapped (not a
\* timeout) when the last fetch failed and a TimeoutError without objects
\* when it returned an empty list; WaitForClusterNotFound and
\* WaitForComponentNotFound return a TimeoutError without objects; the
\* backup waits return a TimeoutError carrying the initial empty Backup.
C5_NoSnapshotOutcome ==
    (EndedByDeadline /\ observed = NilObj) =>
        CASE fn = "WaitForClusterCondition" ->
                IF tick.fetch.err # Nil
                THEN result = Wrap(tick.fetch.err) /\ ~IsTimeout(result)
                ELSE result = TimeoutError(<<>>)
          [] fn \in {"WaitForClusterNotFound", "WaitForComponentNotFound"} ->
                result = TimeoutError(<<>>)
          [] OTHER ->
                result = TimeoutError(<<EmptyBackup>>)

\* The deadline expired on a cluster wait that only ever fetched empty
\* lists: the wait returned a TimeoutError.
C5_Witness ==
    /\ EndedByDeadline
    /\ observed = NilObj
    /\ attempts >= 2
    /\ fn \in ClusterFns
    /\ tick.fetch.err = Nil
    /\ IsTimeout(result)

\* C6 as stated: the object a returned TimeoutError carries is the copy of
\* the first item of the most recent fetch that returned a non-empty list,
\* never an object no fetch returned.
C6_TimeoutObjectWasFetched ==
    (Returned /\ result.type = "timeoutError" /\ Len(result.observedObjects) > 0) =>
        /\ observed # NilObj
        /\ result.observedObjects = <<observed>>

\* C7: within one call the retained snapshot changes only on a run of the
\* callback whose fetch returned no error and a non-empty list (and then
\* becomes that list's first item); a run whose fetch returned a transient
\* error, a not-found error or an empty list leaves it unchanged.
C7_SnapshotChangesOnlyOnFetchedItem ==
    [][Retained' # Retained =>
          /\ attempts' = attempts + 1
          /\ tick'.fetch.err = Nil
          /\ Len(tick'.fetch.Items) > 0
          /\ Retained' = tick'.fetch.Items[1]]_vars

\* A later run of the callback fetched an error or an empty list and the
\* snapshot of an earlier fetch is still retained.
C7_Witness ==
    /\ attempts >= 2
    /\ \/ tick.fetch.err \in TransientErrors \cup {NotFoundError}
       \/ tick.fetch.err = Nil /\ Len(tick.fetch.Items) = 0
    /\ observed # NilObj
    /\ Retained = observed
    /\ ~Returned

\* C8: shouldRetry returns (true, 0) exactly for an internal-server or a
\* too-many-requests error and (false, 0) for every other error, not-found
\* and nil included; every decision the handler obtained from it is the
\* one for the error of that fetch, whatever happened on earlier runs.
C8_ShouldRetryDecision ==
    /\ \A e \in FetchErrors \cup {Nil} :
          shouldRetry(e) = [retry |-> e \in TransientErrors, retryAfter |-> 0]
    /\ (Polled /\ tick.classified) =>
          tick.decision = [retry |-> tick.fetch.err \in TransientErrors, retryAfter |-> 0]

\* The classifier decided to retry on a second or later run.
C8_Witness ==
    /\ attempts >= 2
    /\ tick.classified
    /\ tick.decision.retry
    /\ tick.fetch.err = ApiError("TooManyRequests")

C10_NotFoundKeepsPresenceWaitPolling ==
    (fn \in ConditionFns /\ Polled /\ tick.fetch.err = NotFoundError) =>
        /\ tick.handled
        /\ ~tick.classified
        /\ tick.ret = [done |-> FALSE, err |-> Nil]
        /\ ~tick.evaluated
        /\ (Returned => EndedByDeadline)

\* A presence wait fetched not-found twice and goes on polling.
C10_Witness ==
    /\ fn \in ConditionFns
    /\ attempts >= 2
    /\ tick.fetch.err = NotFoundError
    /\ observed = NilObj
    /\ pc = "wait"

\* The error err is e itself or wraps e.
Surfaces(err, e) == err = e \/ (err.type = "wrapped" /\ err.cause = e)

EmptyList == Polled /\ tick.fetch.err = Nil /\ Len(tick.fetch.Items) = 0

\* The snapshot a wait retains when nothing was fetched yet.
InitialSnapshot == IF fn \in BackupFns THEN EmptyBackup ELSE NilObj

\* C12: in WaitForClusterCondition and WaitForBackupCondition a fetch that
\* succeeds with an empty list does not end the wait (only the deadline
\* can), gives the poll loop (false, nil), does not invoke the predicate
\* and leaves the retained snapshot what the earlier fetches made it.
C12_EmptyListContinues ==
    (fn \in ConditionFns /\ EmptyList) =>
        /\ tick.ret = [done |-> FALSE, err |-> Nil]
        /\ ~tick.evaluated
        /\ tick.condition = NoCondition
        /\ (Returned => EndedByDeadline)
        /\ Retained = IF observed = NilObj THEN InitialSnapshot ELSE observed

\* A condition wait fetched an empty list after it had retained a
\* snapshot, and goes on polling with that snapshot.
C12_Witness ==
    /\ fn \in ConditionFns
    /\ EmptyList
    /\ attempts >= 2
    /\ observed # NilObj
    /\ Retained = observed
    /\ pc = "wait"

\* C13: every wait call fetches at least once, and its first fetch starts
\* at t=0 before any sleep, also when the timeout is shorter than the poll
\* interval.
C13_ImmediateFirstFetch ==
    /\ attempts = Len(fetchedAt)
    /\ attempts = 0 => (pc = "cond" /\ elapsed = 0 /\ ~closed)
    /\ attempts >= 1 => fetchedAt[1] = 0
    /\ Returned => attempts >= 1

\* A call with a timeout shorter than the poll interval made its first
\* fetch at t=0 and waits.
C13_Witness ==
    /\ timeout < poll
    /\ fetchedAt = <<0>>
    /\ pc = "wait"

\* The longest delay shouldRetry asks the handler to sleep.
MaxRetryDelay == 0

\* The latest time at which a call may return.
LatestReturn == timeout + poll + MaxRetryDelay

\* What is left of a call: the time up to LatestReturn, then whether the
\* timeout is still to fire, then whether the callback is about to run.
Remaining ==
    4 * (LatestReturn - elapsed)
    + (IF closed THEN 0 ELSE 2)
    + (IF pc = "cond" THEN 1 ELSE 0)

Gap(i) == fetchedAt[i] - fetchedAt[i - 1]

\* C15 as stated: two consecutive fetches of a call are always separated
\* by one poll interval.
C15_FetchesOneIntervalApart ==
    \A i \in 2..Len(fetchedAt) : Gap(i) >= poll

\* C15 as amended: two consecutive fetches are one poll interval apart,
\* except the last fetch of a call whose timeout fired: the callback then
\* runs once more at the deadline, at most one interval and possibly no
\* time after the previous fetch, and the call returns with that run.  No
\* fetch error, empty list or predicate error leads to another fetch
\* before the ticker or the timeout fires.
C15_FetchesOneIntervalApartUntilDeadline ==
    /\ \A i \in 2..Len(fetchedAt) :
          \/ Gap(i) = poll
          \/ /\ i = Len(fetchedAt)
             /\ closed
             /\ Returned
             /\ fetchedAt[i] = timeout
             /\ Gap(i) \in 0..poll
    /\ (closed /\ pc # "cond") => Returned
    /\ (Polled /\ pc = "cond") => elapsed > fetchedAt[Len(fetchedAt)] \/ closed

\* The timeout fired at the time of a tick: the last two fetches of the
\* call started at the same time.
C15_Witness ==
    /\ Returned
    /\ closed
    /\ attempts >= 3
    /\ Gap(attempts) = 0
    /\ Gap(attempts - 1) = poll

\* The number of multiples of the poll interval strictly before time t.
TicksBefore(t) == (t + poll - 1) \div poll

\* C16 as stated: when no tick ends the wait the fetches start exactly at
\* t = 0, poll, 2 * poll, ... strictly before the timeout; with timeout 30
\* and poll 15 the call makes exactly 2 fetches.
C16_FetchesOnlyBeforeTimeout ==
    EndedByDeadline =>
        /\ \A i \in 1..Len(fetchedAt) :
              fetchedAt[i] = (i - 1) * poll /\ fetchedAt[i] < timeout
        /\ attempts = TicksBefore(timeout)
        /\ (timeout = 2 * poll => attempts = 2)

\* C16 as amended: when no tick ends the wait the fetches start at t = 0,
\* poll, 2 * poll, ... for every multiple strictly before the timeout,
\* possibly at the multiple equal to the timeout, and once more at the
\* timeout when it fires; with timeout 30 and poll 15 the call makes 3 or 4
\* fetches, and when every fetch returned an empty list its outcome
\* carries no fetched object.
C16_FetchesAtTicksAndAtTimeout ==
    EndedByDeadline =>
        LET n == Len(fetchedAt) IN
        /\ n = attempts
        /\ n >= 2
        /\ \A i \in 1..(n - 1) : fetchedAt[i] = (i - 1) * poll
        /\ fetchedAt[n] = timeout
        /\ n - 1 \in {TicksBefore(timeout), TicksBefore(timeout + 1)}
        /\ (timeout = 2 * poll => attempts \in {3, 4})
        /\ observed = NilObj =>
              /\ result \in {TimeoutError(<<>>), TimeoutError(<<EmptyBackup>>)}
                 \/ result.type = "wrapped"
              /\ (fn \in ClusterFns /\ tick.fetch.err = Nil) =>
                    result = TimeoutError(<<>>)

\* WaitForClusterCondition with timeout 30 fetched an empty list at t = 0,
\* 15 and 30 and ended by the deadline with no object.
C16_Witness ==
    /\ fn = "WaitForClusterCondition"
    /\ timeout = 2 * poll
    /\ EndedByDeadline
    /\ fetchedAt = <<0, poll, 2 * poll>>
    /\ observed = NilObj
    /\ EmptyList
    /\ result = TimeoutError(<<>>)

\* The latest run of the callback fetched a non-empty list without error.
Fetched == Polled /\ tick.fetch.err = Nil /\ Len(tick.fetch.Items) > 0

\* The phase of the first cluster of the latest fetch.
FetchedPhase == tick.fetch.Items[1].Phase

\* C17: WaitForClusterRunning returns nil at the first run of the callback
\* that fetches a cluster in phase Running, and nothing runs after it; a
\* fetched cluster in another phase never makes it return nil, and it
\* returns nil in no other case.
C17_RunningEndsWaitWithSuccess ==
    (fn = "WaitForClusterCondition" /\ cond = "ClusterRunning") =>
        /\ (Fetched /\ FetchedPhase = "Running") =>
              /\ Returned
              /\ result = Nil
              /\ fetchedAt[attempts] = elapsed
              /\ ~ENABLED Next
        /\ (Fetched /\ FetchedPhase # "Running") =>
              /\ tick.ret = [done |-> FALSE, err |-> Nil]
              /\ result # Nil
        /\ (Returned /\ result = Nil) => Fetched /\ FetchedPhase = "Running"

\* With timeout 60 the third fetch, at t = 30, returned a Running cluster
\* and the call returned nil after exactly three fetches.
C17_Witness ==
    /\ fn = "WaitForClusterCondition"
    /\ cond = "ClusterRunning"
    /\ timeout = LongTimeout
    /\ fetchedAt = <<0, poll, 2 * poll>>
    /\ attempts = 3
    /\ Fetched
    /\ FetchedPhase = "Running"
    /\ Returned
    /\ result = Nil

\* C18: WaitForRecovery returns nil at the first run of the callback that
\* fetches a cluster in phase Running; on a fetched cluster in phase
\* RestoreFailed the predicate returns (false, err # nil), the callback
\* returns (false, nil), and the call returns only when the deadline
\* expires, with a TimeoutError that carries the RestoreFailed cluster.
C18_RestoreFailedDoesNotEndRecovery ==
    (fn = "WaitForClusterCondition" /\ cond = "Recovery" /\ Fetched) =>
        /\ FetchedPhase = "Running" => Returned /\ result = Nil
        /\ FetchedPhase = "RestoreFailed" =>
              /\ tick.condition =
                    [done |-> FALSE, err |-> Errorf("recovery cluster failed")]
              /\ tick.ret = [done |-> FALSE, err |-> Nil]
              /\ ~closed => ~Returned /\ result = Pending
              /\ Returned =>
                    /\ EndedByDeadline
                    /\ elapsed = timeout
                    /\ result = TimeoutError(<<tick.fetch.Items[1]>>)
        /\ result = Nil => FetchedPhase = "Running"

\* With timeout 30 every run up to the deadline evaluated a soft error and
\* the call returned a TimeoutError with the RestoreFailed cluster.
C18_Witness ==
    /\ fn = "WaitForClusterCondition"
    /\ cond = "Recovery"
    /\ timeout = 2 * poll
    /\ attempts >= 3
    /\ Fetched
    /\ FetchedPhase = "RestoreFailed"
    /\ SoftError
    /\ EndedByDeadline
    /\ result.type = "timeoutError"
    /\ result.observedObjects[1].Phase = "RestoreFailed"

\* C19: WaitForClusterNotFound returns nil at the first fetch that returns
\* a not-found error and nothing runs after it; it returns nil in no other
\* case, so a fetch that returns a cluster never makes it succeed.
C19_NotFoundIsSuccess ==
    fn = "WaitForClusterNotFound" =>
        /\ (Polled /\ tick.fetch.err = NotFoundError) =>
              /\ tick.ret = [done |-> TRUE, err |-> Nil]
              /\ ~tick.handled
              /\ Returned
              /\ result = Nil
              /\ ~ENABLED Next
        /\ (Returned /\ result = Nil) => tick.fetch.err = NotFoundError
        /\ Fetched => tick.ret = [done |-> FALSE, err |-> Nil] /\ result # Nil

\* The first fetch returned not-found and the call returned nil after one
\* fetch.
C19_Witness ==
    /\ fn = "WaitForClusterNotFound"
    /\ attempts = 1
    /\ fetchedAt = <<0>>
    /\ tick.fetch.err = NotFoundError
    /\ Returned
    /\ result = Nil

\* C20 as stated: in WaitForClusterNotFound every fetch error other than
\* not-found ends the wait at that run of the callback and is returned
\* wrapped.
C20_OtherFetchErrorsEndClusterNotFound ==
    (/\ fn = "WaitForClusterNotFound"
     /\ Polled
     /\ tick.fetch.err \in FetchErrors \ {NotFoundError}) =>
        /\ Returned
        /\ result = Wrap(tick.fetch.err)

\* ------------------------------------------------- helpers examined alone
\* No wait call is running.
NoWait ==
    /\ fn = "none"
    /\ cond = "none"
    /\ timeout = 0
    /\ pc = "returned"
    /\ closed = FALSE
    /\ elapsed = 0
    /\ attempts = 0
    /\ tick = NoTick
    /\ lastCluster = NilObj
    /\ lastClusterError = Nil
    /\ bp = NilObj
    /\ pollErr = Pending
    /\ result = Pending
    /\ observed = NilObj
    /\ fetchedAt = <<>>

\* Longest list of component conditions examined.
MaxConds == 3

ComponentNames == {"kubernetes", "etcd"}

\* Every list of component conditions of length at most MaxConds.
AllConditionLists ==
    SeqsUpTo([Name : ComponentNames, Status : ComponentStatuses], MaxConds)

\* A run of WaitForClusterHealthy's callback on a fetched cluster, with
\* the timeout fired or not.
ClusterHealthyCalls ==
    [clu : {[kind |-> "Cluster", Phase |-> p, ComponentConditions |-> c, Addons |-> 0] :
                p \in Phases, c \in AllConditionLists},
     chClosed : BOOLEAN]

\* One run of the callback of WaitForClusterCondition with the predicate
\* of WaitForClusterHealthy, and the return of the function when the poll
\* ends with that run.
CallClusterHealthy ==
    /\ op = "WaitForClusterHealthy"
    /\ out = NotCalled
    /\ out' = LET p == ClusterHealthy(args.clu)
                  r == ClusterConditionFunc([err |-> Nil, Items |-> <<args.clu>>], p, NilObj)
                  q == PollImmediate(r.ret, args.chClosed)
              IN [condition |-> p, ret |-> r.ret, returned |-> q.returned,
                  result |-> IF q.returned
                             THEN ClusterConditionReturn(q.err, r.lastCluster,
                                                         r.lastClusterError)
                             ELSE Pending]
    /\ UNCHANGED <<op, args>>
    /\ UNCHANGED notFunc

\* The errors handleWaitingAPIError may be passed: nil (an empty list was
\* fetched) or a fetch error; with each value of retryNotFound.
HandlerCalls == [err : {Nil} \cup FetchErrors, retryNotFound : BOOLEAN]

\* A call of handleWaitingAPIError.
CallHandleWaitingAPIError ==
    /\ op = "handleWaitingAPIError"
    /\ out = NotCalled
    /\ out' = LET h == handleWaitingAPIError(args.err, args.retryNotFound) IN
              [done |-> h.done, err |-> h.err]
    /\ UNCHANGED <<op, args>>
    /\ UNCHANGED notFunc

\* The errors IsTimeout and maybeTimeoutError may be passed: nil, the
\* sentinel, TimeoutErrors with and without an object, fetch and predicate
\* errors, and errors that wrap one of these.
TaxonomyErrors ==
    LET plain == {Nil, ErrWaitTimeout, Errorf("condition failed")}
                    \cup FetchErrors
                    \cup {TimeoutError(<<>>), TimeoutError(<<EmptyBackup>>)}
                    \cup {TimeoutError(<<c>>) : c \in MoreClusters}
    IN plain \cup {Wrap(e) : e \in plain \ {Nil}}

TaxonomyCalls == [err : TaxonomyErrors]

\* A call of IsTimeout.
CallIsTimeout ==
    /\ op = "IsTimeout"
    /\ out = NotCalled
    /\ out' = [timeout |-> IsTimeout(args.err)]
    /\ UNCHANGED <<op, args>>
    /\ UNCHANGED notFunc

\* A call of maybeTimeoutError.
CallMaybeTimeoutError ==
    /\ op = "maybeTimeoutError"
    /\ out = NotCalled
    /\ out' = maybeTimeoutError(args.err)
    /\ UNCHANGED <<op, args>>
    /\ UNCHANGED notFunc

\* The calls examined: a function and its arguments.
FuncCalls ==
    {<<"WaitForClusterHealthy", a>> : a \in ClusterHealthyCalls}
        \cup {<<"handleWaitingAPIError", a>> : a \in HandlerCalls}
        \cup {<<"IsTimeout", a>> : a \in TaxonomyCalls}
        \cup {<<"maybeTimeoutError", a>> : a \in TaxonomyCalls}

FuncInit ==
    /\ \E c \in FuncCalls : op = c[1] /\ args = c[2]
    /\ out = NotCalled
    /\ NoWait
    /\ NoHeap
    /\ NoCalls
    /\ NoCli

FuncNext ==
    \/ CallClusterHealthy
    \/ CallHandleWaitingAPIError
    \/ CallIsTimeout
    \/ CallMaybeTimeoutError

FuncSpec == FuncInit /\ [][FuncNext]_<<vars, others>>

\* The component conditions of the cluster passed to the examined call.
Conds == args.clu.ComponentConditions

\* Some component condition named "kubernetes" is Healthy.
SomeKubernetesHealthy ==
    \E i \in 1..Len(Conds) : Conds[i].Name = "kubernetes" /\ Conds[i].Status = "Healthy"

\* The first component condition named "kubernetes" is Healthy.
FirstKubernetesHealthy ==
    \E i \in 1..Len(Conds) :
        /\ Conds[i].Name = "kubernetes"
        /\ Conds[i].Status = "Healthy"
        /\ \A j \in 1..(i - 1) : Conds[j].Name # "kubernetes"

ClusterHealthyCalled == op = "WaitForClusterHealthy" /\ out # NotCalled

\* C21 as stated: the cluster-healthy predicate returns done=true exactly
\* when the component conditions contain an entry named "kubernetes" whose
\* status is Healthy, duplicates of that name included.
C21_HealthyIffSomeKubernetesHealthy ==
    ClusterHealthyCalled => (out.condition.done <=> SomeKubernetesHealthy)

\* C21 as amended: the cluster-healthy predicate returns done=true exactly
\* when the first component condition named "kubernetes" is Healthy; it
\* never returns an error; when it returns done=false the callback returns
\* (false, nil) and the wait returns only if the timeout fired, with a
\* TimeoutError that carries the cluster; when it returns done=true the
\* wait returns nil.
C21_HealthyIffFirstKubernetesHealthy ==
    ClusterHealthyCalled =>
        /\ out.condition.done <=> FirstKubernetesHealthy
        /\ out.condition.err = Nil
        /\ out.condition.done => out.returned /\ out.result = Nil
        /\ ~out.condition.done =>
              /\ out.ret = [done |-> FALSE, err |-> Nil]
              /\ out.returned <=> args.chClosed
              /\ out.returned => out.result = TimeoutError(<<args.clu>>)

\* The predicate ran on a cluster whose first "kubernetes" condition is
\* Unhealthy and whose second is Healthy, and the wait went on.
C21_Witness ==
    /\ ClusterHealthyCalled
    /\ Len(Conds) >= 2
    /\ Conds[1] = [Name |-> "kubernetes", Status |-> "Unhealthy"]
    /\ Conds[2] = [Name |-> "kubernetes", Status |-> "Healthy"]
    /\ ~out.condition.done
    /\ ~out.returned

\* The status of the first backup of the latest fetch.
FetchedStatus == tick.fetch.Items[1].ClusterBackupStatus

\* C22: the backup-available predicate returns (true, nil) on status
\* available, (false, err # nil) on status error and (false, nil) on every
\* other status; WaitForBackupAvailable returns nil on an available backup
\* and, on a backup in status error, goes on polling and returns only when
\* the deadline expires, with a TimeoutError that carries the backup.
C22_BackupErrorDoesNotEndWait ==
    (fn = "WaitForBackupCondition" /\ cond = "BackupAvailable" /\ Fetched) =>
        /\ tick.evaluated
        /\ FetchedStatus = "available" =>
              /\ tick.condition = [done |-> TRUE, err |-> Nil]
              /\ Returned
              /\ result = Nil
        /\ FetchedStatus = "error" =>
              /\ ~tick.condition.done
              /\ tick.condition.err # Nil
              /\ tick.ret = [done |-> FALSE, err |-> Nil]
              /\ ~closed => ~Returned /\ result = Pending
              /\ Returned =>
                    /\ EndedByDeadline
                    /\ IsTimeout(result)
                    /\ result = TimeoutError(<<tick.fetch.Items[1]>>)
        /\ FetchedStatus \notin {"available", "error"} =>
              /\ tick.condition = [done |-> FALSE, err |-> Nil]
              /\ tick.ret = [done |-> FALSE, err |-> Nil]
        /\ result = Nil => FetchedStatus = "available"

\* Every run up to the deadline fetched a backup in status error, and the
\* call returned a TimeoutError with that backup.
C22_Witness ==
    /\ fn = "WaitForBackupCondition"
    /\ cond = "BackupAvailable"
    /\ timeout = 2 * poll
    /\ attempts >= 3
    /\ Fetched
    /\ FetchedStatus = "error"
    /\ SoftError
    /\ EndedByDeadline
    /\ result = TimeoutError(<<bp>>)
    /\ bp.ClusterBackupStatus = "error"

\* The latest fetch of WaitForBackupNotFound or WaitForComponentNotFound
\* returned a not-found error.
AbsenceWaitNotFound ==
    /\ fn \in {"WaitForBackupNotFound", "WaitForComponentNotFound"}
    /\ Polled
    /\ tick.fetch.err = NotFoundError

\* C23 as stated: WaitForBackupNotFound and WaitForComponentNotFound
\* return nil at the first fetch that returns a not-found error.
C23_NotFoundEndsAbsenceWaits ==
    AbsenceWaitNotFound => Returned /\ result = Nil

\* C23 as amended: in WaitForBackupNotFound and WaitForComponentNotFound a
\* not-found fetch error is ignored: the callback returns (false, nil),
\* the snapshot is kept and the wait goes on, returning only when the
\* deadline expires, with a TimeoutError.  WaitForBackupNotFound returns
\* nil only on an empty list, WaitForComponentNotFound only on a fetched
\* cluster without addons; only WaitForClusterNotFound returns nil on a
\* not-found error.
C23_NotFoundKeepsAbsenceWaitsPolling ==
    /\ AbsenceWaitNotFound =>
          /\ tick.handled
          /\ ~tick.classified
          /\ tick.ret = [done |-> FALSE, err |-> Nil]
          /\ result # Nil
          /\ ~closed => ~Returned
          /\ Returned => EndedByDeadline /\ IsTimeout(result)
    /\ (fn = "WaitForBackupNotFound" /\ Returned /\ result = Nil) => EmptyList
    /\ (fn = "WaitForComponentNotFound" /\ Returned /\ result = Nil) =>
          Fetched /\ tick.fetch.Items[1].Addons = 0
    /\ (Returned /\ result = Nil /\ tick.fetch.err = NotFoundError) =>
          fn = "WaitForClusterNotFound"

\* WaitForBackupNotFound fetched not-found at every run up to the deadline
\* and returned a TimeoutError.
C23_Witness ==
    /\ fn = "WaitForBackupNotFound"
    /\ attempts >= 2
    /\ tick.fetch.err = NotFoundError
    /\ observed = NilObj
    /\ EndedByDeadline
    /\ IsTimeout(result)

\* -------------------------------------------- the memory of a wait call
\* Number of addresses.  A callback run needs six at most: the snapshot
\* retained so far, the newly fetched item and its copy, each with the
\* slice behind its ComponentConditions.
MaxAddrs == 6

Addrs == 1..MaxAddrs

\* An address that holds nothing.
Free == [kind |-> "free"]

\* The lowest free address of heap h.
Alloc(h) == CHOOSE a \in Addrs : h[a] = Free /\ \A b \in 1..(a - 1) : h[b] # Free

\* The addresses reachable from the pointers in roots.
Reach(h, roots) ==
    LET objs == roots \ {NilAddr} IN
    objs \cup {h[a].Conds : a \in {b \in objs : h[b].kind = "Cluster"}}

\* Heap h after the objects unreachable from roots are collected.
Collect(h, roots) == [a \in Addrs |-> IF a \in Reach(h, roots) THEN h[a] ELSE Free]

\* A new cluster with phase p whose ComponentConditions slice holds one
\* condition of status st: the heap after the allocation and the address.
NewCluster(h, p, st) ==
    LET sl == Alloc(h)
        h1 == [h EXCEPT ![sl] = [kind |-> "slice", Status |-> st]]
        ob == Alloc(h1)
    IN [heap |-> [h1 EXCEPT ![ob] = [kind |-> "Cluster", Phase |-> p, Conds |-> sl]],
        addr |-> ob]

\* (*corev1.Cluster).DeepCopy(): a new object with a new slice, both with
\* the content of the originals.
DeepCopyAt(h, a) == NewCluster(h, h[a].Phase, h[h[a].Conds].Status)

\* Faulty variant of RetainItem: the wait keeps the pointer to the fetched
\* item itself.
RetainItem_KeepsPointer(h, a) == [heap |-> h, addr |-> a]

\* Faulty variant of RetainItem: the wait keeps a copy of the item's
\* struct, which shares the slice of the original.
RetainItem_CopiesStruct(h, a) ==
    LET ob == Alloc(h) IN
    [heap |-> [h EXCEPT ![ob] = h[a]], addr |-> ob]

\* lastCluster = clu.Items[0].DeepCopy() (and the same for bp).
RetainItem(h, a) == DeepCopyAt(h, a)

\* What the object at address a holds, the slice behind it included.
Content(h, a) == [Phase |-> h[a].Phase, Status |-> h[h[a].Conds].Status]

\* A run of a wait callback that fetches a non-empty list: the client
\* builds the list, whose first item is a new object, and the callback
\* retains a copy of that item.  The previous list is dropped.
FetchItem ==
    /\ carried = NilAddr
    /\ \E p \in Phases, st \in ComponentStatuses :
         LET h0 == Collect(heap, {retained})
             item == NewCluster(h0, p, st)
             kept == RetainItem(item.heap, item.addr)
         IN /\ fetched' = item.addr
            /\ retained' = kept.addr
            /\ taken' = Content(item.heap, item.addr)
            /\ heap' = Collect(kept.heap, {item.addr, kept.addr})
    /\ UNCHANGED carried
    /\ UNCHANGED notHeap

\* Whoever holds the fetched item (the client, a later fetch that reuses
\* it, the caller) changes its phase.
MutatePhase ==
    /\ fetched # NilAddr
    /\ \E p \in Phases \ {heap[fetched].Phase} :
         heap' = [heap EXCEPT ![fetched].Phase = p]
    /\ UNCHANGED <<fetched, retained, carried, taken>>
    /\ UNCHANGED notHeap

\* Whoever holds the fetched item changes a condition in its slice.
MutateCondition ==
    /\ fetched # NilAddr
    /\ \E st \in ComponentStatuses \ {heap[heap[fetched].Conds].Status} :
         heap' = [heap EXCEPT ![heap[fetched].Conds].Status = st]
    /\ UNCHANGED <<fetched, retained, carried, taken>>
    /\ UNCHANGED notHeap

\* The deadline expires with a snapshot retained: the wait returns
\* TimeoutError(msg, lastCluster).
ReturnTimeout ==
    /\ carried = NilAddr
    /\ retained # NilAddr
    /\ carried' = retained
    /\ UNCHANGED <<heap, fetched, retained, taken>>
    /\ UNCHANGED notHeap

HeapInit ==
    /\ heap = [a \in Addrs |-> Free]
    /\ fetched = NilAddr
    /\ retained = NilAddr
    /\ carried = NilAddr
    /\ taken = <<>>
    /\ NoWait
    /\ NoCall
    /\ NoCalls
    /\ NoCli

HeapNext ==
    \/ FetchItem
    \/ MutatePhase
    \/ MutateCondition
    \/ ReturnTimeout

HeapSpec == HeapInit /\ [][HeapNext]_<<vars, others>>

\* C24: the snapshot a wait retains, and the one its returned TimeoutError
\* carries, hold what the fetched item held when it was fetched, whatever
\* is done to the fetched item afterwards; the snapshot shares neither the
\* object nor its slice with the fetched item, and only a fetch changes
\* what the snapshot holds.
C24_SnapshotIsACopy ==
    /\ [](retained # NilAddr =>
            /\ Content(heap, retained) = taken
            /\ Reach(heap, {retained}) \cap Reach(heap, {fetched}) = {})
    /\ [](carried # NilAddr =>
            /\ carried = retained
            /\ Content(heap, carried) = taken)
    /\ [][(retained # NilAddr /\ ~FetchItem) =>
             /\ retained' = retained
             /\ Content(heap', retained') = Content(heap, retained)]_heapVars

\* The wait returned a TimeoutError and, since the fetch, both the phase
\* and the condition of the fetched item were changed; the carried snapshot
\* still holds what was fetched.
C24_Witness ==
    /\ carried # NilAddr
    /\ fetched # NilAddr
    /\ Content(heap, fetched).Phase # taken.Phase
    /\ Content(heap, fetched).Status # taken.Status
    /\ Content(heap, carried) = taken

\* ------------------------------------------- wait calls at the same time
\* Two calls, on different objects.
CallIds == {"a", "b"}

\* Number of callback runs the timeout of a call allows: the poll closes
\* before the last of them.
MaxCallTicks == 2

\* The fetch results a concurrent call may receive: the error classes, an
\* empty list, and a list of one object for which the predicate is false
\* or true.
CallFetches(f) ==
    IF f \in ClusterFns
    THEN {r \in DescribeCluster :
            /\ r.err \in {Nil, NotFoundError, ApiError("InternalError"), ApiError("Forbidden")}
            /\ Len(r.Items) <= 1
            /\ \A i \in 1..Len(r.Items) :
                  /\ r.Items[i].Phase \in {"Installing", "Running"}
                  /\ r.Items[i].ComponentConditions = <<>>
                  /\ r.Items[i].Addons = 0}
    ELSE {r \in ListBackupsWithCluster :
            /\ r.err \in {Nil, NotFoundError, ApiError("InternalError"), ApiError("Forbidden")}
            /\ Len(r.Items) <= 1
            /\ \A i \in 1..Len(r.Items) :
                  /\ r.Items[i].Name = "b1"
                  /\ r.Items[i].ClusterBackupStatus \in {"creating", "available"}}

\* The locals of a call of WaitForClusterRunning or WaitForBackupAvailable
\* at its entry.
Locals(f) ==
    [fn |-> f, pc |-> "cond", lastCluster |-> NilObj, lastClusterError |-> Nil,
     bp |-> IF f \in BackupFns THEN EmptyBackup ELSE NilObj, result |-> Pending]

\* The locals l of a call after one run of its callback on fetch result f
\* and, when the poll ends with that run, after the rest of the function.
CallRun(l, f, chClosed) ==
    IF l.fn = "WaitForClusterCondition"
    THEN LET p == IF f.err = Nil /\ Len(f.Items) > 0
                  THEN ClusterRunning(DeepCopy(f.Items[1])) ELSE NoCondition
             r == ClusterConditionFunc(f, p, l.lastCluster)
             q == PollImmediate(r.ret, chClosed)
         IN [l EXCEPT !.lastCluster = r.lastCluster,
                      !.lastClusterError = r.lastClusterError,
                      !.pc = IF q.returned THEN "returned" ELSE "cond",
                      !.result = IF q.returned
                                 THEN ClusterConditionReturn(q.err, r.lastCluster,
                                                             r.lastClusterError)
                                 ELSE Pending]
    ELSE LET p == IF f.err = Nil /\ Len(f.Items) > 0
                  THEN BackupAvailable(DeepCopy(f.Items[1])) ELSE NoCondition
             r == BackupConditionFunc(f, p, l.bp)
             q == PollImmediate(r.ret, chClosed)
         IN [l EXCEPT !.bp = r.bp,
                      !.pc = IF q.returned THEN "returned" ELSE "cond",
                      !.result = IF q.returned
                                 THEN BackupConditionReturn(q.err, r.bp)
                                 ELSE Pending]

\* Faulty variant of StoreLocals: lastClusterError is a variable of the
\* package, written by every call.
StoreLocals_SharedLastError(cs, i, l) ==
    [j \in CallIds |->
        IF j = i THEN l
        ELSE [cs[j] EXCEPT !.lastClusterError = l.lastClusterError]]

\* Faulty variant of StoreLocals: the snapshots are variables of the
\* package, written by every call.
StoreLocals_SharedSnapshot(cs, i, l) ==
    [j \in CallIds |->
        IF j = i THEN l
        ELSE [cs[j] EXCEPT !.lastCluster = l.lastCluster, !.bp = l.bp]]

\* The locals of all calls after call i assigned its own: the variables a
\* callback writes are locals of its call.
StoreLocals(cs, i, l) == [cs EXCEPT ![i] = l]

\* One run of the callback of call i.
CallTick(i) ==
    /\ calls[i].pc = "cond"
    /\ Len(hist[i]) < MaxCallTicks
    /\ \E f \in CallFetches(calls[i].fn) :
         /\ hist' = [hist EXCEPT ![i] = Append(@, f)]
         /\ calls' = StoreLocals(calls, i,
                                 CallRun(calls[i], f, Len(hist[i]) + 1 = MaxCallTicks))
    /\ UNCHANGED notConc

ConcInit ==
    /\ calls \in {[i \in CallIds |-> Locals(g[i])] : g \in [CallIds -> ConditionFns]}
    /\ hist = [i \in CallIds |-> <<>>]
    /\ NoWait
    /\ NoCall
    /\ NoHeap
    /\ NoCli

ConcNext == \E i \in CallIds : CallTick(i)

ConcSpec == ConcInit /\ [][ConcNext]_<<vars, others>>

\* What a call of function f holds after it received the fetch results h,
\* running alone.
RECURSIVE Alone(_, _)
Alone(f, h) ==
    IF h = <<>> THEN Locals(f)
    ELSE CallRun(Alone(f, SubSeq(h, 1, Len(h) - 1)), h[Len(h)], Len(h) = MaxCallTicks)

\* C25: however the runs of the callbacks of two wait calls interleave,
\* the snapshot, the last fetch error and the outcome of each call are
\* those of the same call running alone on the fetch results it received,
\* and a run of one call's callback changes nothing of the other call.
C25_CallsDoNotInterfere ==
    /\ [](\A i \in CallIds : calls[i] = Alone(calls[i].fn, hist[i]))
    /\ [][\A i \in CallIds : hist'[i] = hist[i] => calls'[i] = calls[i]]_concVars

\* Two calls of WaitForClusterCondition ran two callbacks each: one ended
\* with a not-found error and no snapshot, the other with a snapshot and a
\* timeout.
C25_Witness ==
    /\ \A i \in CallIds : calls[i].fn = "WaitForClusterCondition" /\ Len(hist[i]) = 2
    /\ calls["a"].pc = "returned"
    /\ calls["a"].lastClusterError = NotFoundError
    /\ calls["a"].lastCluster = NilObj
    /\ calls["a"].result = Wrap(NotFoundError)
    /\ calls["b"].pc = "returned"
    /\ calls["b"].lastClusterError = Nil
    /\ calls["b"].lastCluster # NilObj
    /\ calls["b"].result = TimeoutError(<<calls["b"].lastCluster>>)

\* ------------------------------------------ two runs of a backup wait
\* Two runs of the same backup wait, compared tick by tick.
BackupNames == {"b1", "b2"}

\* The fetch results a compared run may receive: the error classes, an
\* empty list, and the lists whose first backup is named "b1".
PairFetches ==
    {r \in ListBackupsWithCluster :
        /\ r.err \in {Nil, NotFoundError, ApiError("InternalError"), ApiError("Forbidden")}
        /\ Len(r.Items) > 0 => r.Items[1].Name = "b1"}

\* The locals of a call of WaitForBackupAvailable or WaitForBackupNotFound
\* at its entry, with the backupName it was passed.
BackupLocals(f, name) ==
    [fn |-> f, backupName |-> name, pc |-> "cond", bp |-> EmptyBackup,
     result |-> Pending]

\* Faulty variant of ListedBackups: the callback reads only the listed
\* backups whose name is backupName.
ListedBackups_FilteredByName(f, backupName) ==
    LET Named(b) == b.Name = backupName IN
    [f EXCEPT !.Items = SelectSeq(f.Items, Named)]

\* The list a backup callback reads: the one the client returned for the
\* cluster, whatever backupName is.
ListedBackups(f, backupName) == f

\* The locals l of a backup wait after one run of its callback on fetch
\* result f and, when the poll ends with that run, after the rest of the
\* function.
BackupRun(l, f, chClosed) ==
    LET g == ListedBackups(f, l.backupName) IN
    IF l.fn = "WaitForBackupCondition"
    THEN LET p == IF g.err = Nil /\ Len(g.Items) > 0
                  THEN BackupAvailable(DeepCopy(g.Items[1])) ELSE NoCondition
             r == BackupConditionFunc(g, p, l.bp)
             q == PollImmediate(r.ret, chClosed)
         IN [l EXCEPT !.bp = r.bp,
                      !.pc = IF q.returned THEN "returned" ELSE "cond",
                      !.result = IF q.returned
                                 THEN BackupConditionReturn(q.err, r.bp)
                                 ELSE Pending]
    ELSE LET r == BackupNotFoundFunc(g, l.bp)
             q == PollImmediate(r.ret, chClosed)
         IN [l EXCEPT !.bp = r.bp,
                      !.pc = IF q.returned THEN "returned" ELSE "cond",
                      !.result = IF q.returned
                                 THEN BackupNotFoundReturn(q.err, r.bp)
                                 ELSE Pending]

\* Two fetch results agree on their error, on being empty and on their
\* first element.
Agree(f1, f2) ==
    /\ f1.err = f2.err
    /\ (Len(f1.Items) = 0) <=> (Len(f2.Items) = 0)
    /\ (Len(f1.Items) > 0 /\ Len(f2.Items) > 0) => f1.Items[1] = f2.Items[1]

\* One run of the callback in each of the two runs, on fetch results that
\* agree.
PairTick ==
    /\ \A i \in CallIds : calls[i].pc = "cond" /\ Len(hist[i]) < MaxCallTicks
    /\ \E fa \in PairFetches, fb \in PairFetches :
         /\ Agree(fa, fb)
         /\ hist' = [hist EXCEPT !["a"] = Append(@, fa), !["b"] = Append(@, fb)]
         /\ calls' = [calls EXCEPT
                         !["a"] = BackupRun(@, fa, Len(hist["a"]) + 1 = MaxCallTicks),
                         !["b"] = BackupRun(@, fb, Len(hist["b"]) + 1 = MaxCallTicks)]
    /\ UNCHANGED notConc

PairInit ==
    /\ \E f \in BackupFns : \E na \in BackupNames, nb \in BackupNames :
         calls = [i \in CallIds |-> BackupLocals(f, IF i = "a" THEN na ELSE nb)]
    /\ hist = [i \in CallIds |-> <<>>]
    /\ NoWait
    /\ NoCall
    /\ NoHeap
    /\ NoCli

PairNext == PairTick

PairSpec == PairInit /\ [][PairNext]_<<vars, others>>

\* C26: two runs of WaitForBackupCondition, or of WaitForBackupNotFound,
\* whose fetch results agree at every tick on the error, on emptiness and
\* on the first element have returned or not alike, with the same result
\* and the same retained snapshot, whatever the other elements of the
\* lists and whatever backupName each run was passed.
C26_OutcomeDependsOnFirstElementOnly ==
    /\ calls["a"].pc = calls["b"].pc
    /\ calls["a"].result = calls["b"].result
    /\ calls["a"].bp = calls["b"].bp
    /\ \A i \in CallIds :
          (Len(hist[i]) > 0 /\ hist[i][Len(hist[i])].err = Nil
              /\ Len(hist[i][Len(hist[i])].Items) > 0) =>
             calls[i].bp = hist[i][Len(hist[i])].Items[1]

\* The two runs were passed different names and received lists with the
\* same first backup and different other backups at both ticks; both
\* returned the same TimeoutError, which carries the first backup and not
\* the one named by the second run.
C26_Witness ==
    /\ calls["a"].backupName = "b1"
    /\ calls["b"].backupName = "b2"
    /\ \A i \in CallIds : calls[i].fn = "WaitForBackupCondition" /\ Len(hist[i]) = 2
    /\ \A k \in 1..2 : Len(hist["a"][k].Items) = 1 /\ Len(hist["b"][k].Items) = 2
    /\ hist["b"][2].Items[2].Name = "b2"
    /\ calls["a"].pc = "returned"
    /\ calls["a"].result = TimeoutError(<<hist["a"][2].Items[1]>>)
    /\ calls["b"].result = calls["a"].result

HandlerCalled == op = "handleWaitingAPIError" /\ out # NotCalled

\* The error passed to the handler is a fetch error that is neither an
\* ignored not-found error nor a transient error.
TerminalInput ==
    /\ args.err # Nil
    /\ ~(args.retryNotFound /\ args.err = NotFoundError)
    /\ args.err \notin TransientErrors

\* C27 as stated: on a terminal fetch error the handler returns (true,
\* err), on every other input (false, nil).
C27_HandlerStopsWithTrue ==
    HandlerCalled =>
        out = IF TerminalInput THEN [done |-> TRUE, err |-> args.err]
              ELSE [done |-> FALSE, err |-> Nil]

\* C27 as amended: the handler never returns done=true; on a terminal
\* fetch error it returns (false, err), which ends the poll with err
\* because the poll reads the error first; on every other input it returns
\* (false, nil) and the poll goes on.
C27_HandlerReturnsFalseWithError ==
    HandlerCalled =>
        /\ out.done = FALSE
        /\ out = IF TerminalInput THEN [done |-> FALSE, err |-> args.err]
                 ELSE [done |-> FALSE, err |-> Nil]
        /\ TerminalInput =>
              PollImmediate(out, FALSE) = [returned |-> TRUE, err |-> args.err]
        /\ ~TerminalInput => ~PollImmediate(out, FALSE).returned

\* The handler was passed a not-found error with retryNotFound false and
\* returned (false, not-found).
C27_Witness ==
    /\ HandlerCalled
    /\ args = [err |-> NotFoundError, retryNotFound |-> FALSE]
    /\ out = [done |-> FALSE, err |-> NotFoundError]

\* The error was built by TimeoutError.
BuiltByTimeoutError(err) == err.type = "timeoutError" /\ err = TimeoutError(err.observedObjects)

\* C28: IsTimeout(err) is true exactly when err is the poll library's
\* sentinel or was built by TimeoutError (an error that wraps one of them
\* is not a timeout); maybeTimeoutError returns nil for nil, a TimeoutError
\* without observed objects for a timeout, and for every other error an
\* error that wraps it, for which IsTimeout is false.
C28_ErrorTaxonomy ==
    /\ (op = "IsTimeout" /\ out # NotCalled) =>
          (out.timeout <=> (args.err = ErrWaitTimeout \/ BuiltByTimeoutError(args.err)))
    /\ (op = "maybeTimeoutError" /\ out # NotCalled) =>
          IF args.err = Nil THEN out = Nil
          ELSE IF args.err = ErrWaitTimeout \/ BuiltByTimeoutError(args.err)
          THEN /\ BuiltByTimeoutError(out)
               /\ out.observedObjects = <<>>
               /\ IsTimeout(out)
          ELSE /\ out.type = "wrapped"
               /\ out.cause = args.err
               /\ ~IsTimeout(out)

\* IsTimeout was passed an error that wraps the sentinel and returned
\* false.
C28_Witness ==
    /\ op = "IsTimeout"
    /\ out # NotCalled
    /\ args.err = Wrap(ErrWaitTimeout)
    /\ ~out.timeout


\* ---------------------------------------------------------------------------
\* The registry commands and the agent server: pkg/cli/registry/registry.go
\* ---------------------------------------------------------------------------

RegistryCmds == {"deploy", "clean", "push", "list", "delete"}

\* NewRegistryOptions: the fields the commands read, with their defaults.
NewRegistryOptions ==
    [PkFile |-> "", Password |-> "", Node |-> "", Pkg |-> "", Arch |-> "amd64",
     RemoveDocker |-> FALSE, Force |-> FALSE, Type |-> "", Name |-> "", Tag |-> ""]

PkFiles == {"", "id_rsa"}
Passwords == {"", "secret"}
Nodes == {"", "10.0.0.111"}
Pkgs == {"", "kc.tar.gz", "kc.tar"}
Archs == {"", "arm64"}
Types == {"", "image", "repository"}
Names == {"", "nginx"}
Tags == {"", "v1"}

\* The options after flag parsing: each command sets the flags it registers.
\* "Delete" is the exported method called by other code than the delete
\* command, with options as the delete command can set them.
Flags(p) ==
    CASE p = "deploy" ->
           {[NewRegistryOptions EXCEPT !.PkFile = k, !.Password = w, !.Node = n, !.Pkg = g, !.Arch = a] :
                k \in PkFiles, w \in Passwords, n \in Nodes, g \in Pkgs, a \in Archs}
      [] p = "clean" ->
           {[NewRegistryOptions EXCEPT !.PkFile = k, !.Password = w, !.Node = n, !.RemoveDocker = r, !.Force = f] :
                k \in PkFiles, w \in Passwords, n \in Nodes, r \in BOOLEAN, f \in BOOLEAN}
      [] p = "push" ->
           {[NewRegistryOptions EXCEPT !.PkFile = k, !.Password = w, !.Node = n, !.Pkg = g] :
                k \in PkFiles, w \in Passwords, n \in Nodes, g \in Pkgs}
      [] p = "list" ->
           {[NewRegistryOptions EXCEPT !.PkFile = k, !.Password = w, !.Node = n, !.Type = t, !.Name = m] :
                k \in PkFiles, w \in Passwords, n \in Nodes, t \in Types, m \in Names}
      [] p \in {"delete", "Delete"} ->
           {[NewRegistryOptions EXCEPT !.PkFile = k, !.Password = w, !.Node = n, !.Name = m, !.Tag = t] :
                k \in PkFiles, w \in Passwords, n \in Nodes, m \in Names, t \in Tags}
      [] OTHER -> {<<>>}

\* What a call put in the trace returned when it is not an error value.
Bool(b) == [type |-> "bool", value |-> b]

Entered == [type |-> "entered"]

Exists(ok, err) == [type |-> "exists", value |-> ok, err |-> err]

\* The error of a remote step that failed.
RemoteError == Errorf("ssh: exit status 1")

StepResults == {Nil, RemoteError}

Complete(opts) ==
    [opts |-> [opts EXCEPT !.Arch = IF @ = "" THEN "amd64" ELSE @], err |-> Nil]

NoCredentials(opts) == opts.PkFile = "" /\ opts.Password = ""

ValidateArgs(opts) ==
    IF NoCredentials(opts) THEN Errorf("one of --pk-file or --passwd must be specified")
    ELSE IF opts.Node = "" THEN Errorf("--node must be specified")
    ELSE Nil

ValidateArgsPush(opts) ==
    IF NoCredentials(opts) THEN Errorf("one of --pk-file or --passwd must be specified")
    ELSE IF opts.Node = "" THEN Errorf("--node must be specified")
    ELSE IF opts.Pkg = "" THEN Errorf("--image-pkg must be specified")
    ELSE Nil

ValidateArgsDeploy(opts) ==
    IF NoCredentials(opts) THEN Errorf("one of --pk-file or --passwd must be specified")
    ELSE IF opts.Pkg = "" THEN Errorf("--pkg must be specified")
    ELSE IF opts.Node = "" THEN Errorf("--node must be specified")
    ELSE Nil

ValidateArgsList(opts) ==
    IF opts.Node = "" THEN Errorf("--node must be specified")
    ELSE IF opts.Type # "image" /\ opts.Type # "repository" THEN Errorf("--type must be one of image,repository")
    ELSE IF opts.Type = "image" /\ opts.Name = "" THEN Errorf("when type=image,--name is required")
    ELSE Nil

ValidateArgsDelete(opts) ==
    IF NoCredentials(opts) THEN Errorf("one of --pk-file or --passwd must be specified")
    ELSE IF opts.Node = "" THEN Errorf("--node must be specified")
    ELSE IF opts.Name = "" THEN Errorf("image name must be specified")
    ELSE IF opts.Tag = "" THEN Errorf("image tag must be specified")
    ELSE Nil

\* The validation each command's Run function calls, and its name.
Validator(p) ==
    CASE p = "deploy" -> "ValidateArgsDeploy"
      [] p = "clean" -> "ValidateArgs"
      [] p = "push" -> "ValidateArgsPush"
      [] p = "list" -> "ValidateArgsList"
      [] p = "delete" -> "ValidateArgsDelete"

Validate(p, opts) ==
    CASE p = "deploy" -> ValidateArgsDeploy(opts)
      [] p = "clean" -> ValidateArgs(opts)
      [] p = "push" -> ValidateArgsPush(opts)
      [] p = "list" -> ValidateArgsList(opts)
      [] p = "delete" -> ValidateArgsDelete(opts)

\* The method each command's Run function calls last.
Action(p) ==
    CASE p = "deploy" -> "Install"
      [] p = "clean" -> "Uninstall"
      [] p = "push" -> "Push"
      [] p = "list" -> "List"
      [] p \in {"delete", "Delete"} -> "Delete"

\* utils.CheckErr: returns on a nil error, prints the error and exits the
\* process otherwise.  The value is the status of the process after the call.
CheckErr(err) == IF err = Nil THEN "running" ELSE "exited"


\* A call the program made and what it returned.
Called(name, ret) == [call |-> name, ret |-> ret]

\* The program goes on at position next.
GoOn(next) == status' = "running" /\ cerr' = cerr /\ cpc' = next

\* The program ends.
Ended(st, err) == status' = st /\ cerr' = err /\ cpc' = "end"

\* utils.CheckErr(err) between two statements of a Run function.
CheckErrThen(err, next) ==
    IF CheckErr(err) = "exited" THEN Ended("exited", err) ELSE GoOn(next)

\* utils.CheckErr(err) as the last statement of a Run function.
CheckErrLast(err) ==
    IF CheckErr(err) = "exited" THEN Ended("exited", err) ELSE Ended("returned", Nil)

\* utils.CheckErr(o.Complete())
CmdComplete ==
    /\ prog \in RegistryCmds
    /\ status = "running"
    /\ cpc = "Complete"
    /\ LET r == Complete(o) IN
         /\ o' = r.opts
         /\ trace' = Append(trace, Called("Complete", r.err))
         /\ CheckErrThen(r.err, "Validate")
    /\ UNCHANGED <<prog, step, stopCh>>
    /\ UNCHANGED notCli

\* utils.CheckErr(o.ValidateArgs...())
CmdValidate ==
    /\ prog \in RegistryCmds
    /\ status = "running"
    /\ cpc = "Validate"
    /\ LET err == Validate(prog, o) IN
         /\ trace' = Append(trace, Called(Validator(prog), err))
         /\ CheckErrThen(err, IF prog = "list" THEN "action" ELSE "preCheck")
    /\ UNCHANGED <<prog, o, step, stopCh>>
    /\ UNCHANGED notCli

\* if !o.preCheck() { return }, with the return left out.
CmdPreCheck_ResultIgnored ==
    /\ prog \in RegistryCmds
    /\ status = "running"
    /\ cpc = "preCheck"
    /\ \E ok \in BOOLEAN :
         /\ trace' = Append(trace, Called("preCheck", Bool(ok)))
         /\ GoOn("action")
    /\ UNCHANGED <<prog, o, step, stopCh>>
    /\ UNCHANGED notCli

\* if !o.preCheck() { return }
CmdPreCheck ==
    /\ prog \in RegistryCmds
    /\ status = "running"
    /\ cpc = "preCheck"
    /\ \E ok \in BOOLEAN :
         /\ trace' = Append(trace, Called("preCheck", Bool(ok)))
         /\ IF ~ok THEN Ended("returned", Nil) ELSE GoOn("action")
    /\ UNCHANGED <<prog, o, step, stopCh>>
    /\ UNCHANGED notCli

\* The Run function calls the command's method: o.Install(), o.Uninstall(),
\* o.Push(), o.List() or o.Delete().
CmdAction ==
    /\ prog \in RegistryCmds
    /\ status = "running"
    /\ cpc = "action"
    /\ trace' = Append(trace, Called(Action(prog), Entered))
    /\ step' = 0
    /\ GoOn("body")
    /\ UNCHANGED <<prog, o, stopCh>>
    /\ UNCHANGED notCli

InstallSteps ==
    <<"processPackage", "installDocker", "installRegistry", "loadImages", "removePkg", "push">>

\* The error Install returns when its i-th step failed with RemoteError.
InstallErrors ==
    <<Errorf("process package error: ssh: exit status 1"),
      Errorf("install docker error: ssh: exit status 1"),
      Errorf("install registry error: ssh: exit status 1"),
      Errorf("load images error: ssh: exit status 1"),
      Errorf("remove pkg error: ssh: exit status 1"),
      Errorf("push images error: ssh: exit status 1")>>

\* One step of Install that goes on to the next step after a failed one.
Install_GoesOnAfterFailure ==
    /\ prog = "deploy"
    /\ status = "running"
    /\ cpc = "body"
    /\ \E err \in StepResults :
         /\ trace' = Append(trace, Called(InstallSteps[step + 1], err))
         /\ step' = step + 1
         /\ IF step + 1 = Len(InstallSteps)
            THEN CheckErrLast(IF err # Nil THEN InstallErrors[step + 1] ELSE Nil)
            ELSE GoOn("body")
    /\ UNCHANGED <<prog, o, stopCh>>
    /\ UNCHANGED notCli

\* One step of Install; the method's result goes to utils.CheckErr.
Install ==
    /\ prog = "deploy"
    /\ status = "running"
    /\ cpc = "body"
    /\ \E err \in StepResults :
         /\ trace' = Append(trace, Called(InstallSteps[step + 1], err))
         /\ step' = step + 1
         /\ IF err # Nil THEN CheckErrLast(InstallErrors[step + 1])
            ELSE IF step + 1 = Len(InstallSteps) THEN CheckErrLast(Nil)
            ELSE GoOn("body")
    /\ UNCHANGED <<prog, o, stopCh>>
    /\ UNCHANGED notCli

\* The steps of Uninstall with the Force and RemoveDocker flags not looked at.
UninstallSteps_FlagsIgnored(opts) ==
    <<"killDocker", "stopRegistry", "cleanDocker", "cleanRegistry">>

UninstallSteps(opts) ==
    (IF opts.Force THEN <<"killDocker">> ELSE <<>>)
        \o <<"stopRegistry">>
        \o (IF opts.RemoveDocker THEN <<"cleanDocker">> ELSE <<>>)
        \o <<"cleanRegistry">>

\* One step of Uninstall; the method's result goes to utils.CheckErr.
Uninstall ==
    /\ prog = "clean"
    /\ status = "running"
    /\ cpc = "body"
    /\ \E err \in StepResults :
         /\ trace' = Append(trace, Called(UninstallSteps(o)[step + 1], err))
         /\ step' = step + 1
         /\ IF err # Nil THEN CheckErrLast(err)
            ELSE IF step + 1 = Len(UninstallSteps(o)) THEN CheckErrLast(Nil)
            ELSE GoOn("body")
    /\ UNCHANGED <<prog, o, stopCh>>
    /\ UNCHANGED notCli

PushSteps == <<"SendPackageV2", "SSHCmdWithSudo", "ret.Error", "push">>

\* strings.LastIndex(imagesPkg, ".gz") >= 0
HasGz(pkg) == pkg = "kc.tar.gz"

\* One step of Push; imagesPkg[0:index] panics when the package name holds no
\* ".gz".  The method's result goes to utils.CheckErr.
Push ==
    /\ prog = "push"
    /\ status = "running"
    /\ cpc = "body"
    /\ \E err \in StepResults :
         /\ trace' = Append(trace, Called(PushSteps[step + 1], err))
         /\ step' = step + 1
         /\ IF err # Nil THEN CheckErrLast(err)
            ELSE IF step + 1 = Len(PushSteps) THEN CheckErrLast(Nil)
            ELSE IF step = 0 /\ ~HasGz(o.Pkg) THEN Ended("panicked", Nil)
            ELSE GoOn("body")
    /\ UNCHANGED <<prog, o, stopCh>>
    /\ UNCHANGED notCli

\* List; the method's result goes to utils.CheckErr.
List ==
    /\ prog = "list"
    /\ status = "running"
    /\ cpc = "body"
    /\ \E err \in StepResults :
         /\ trace' = IF o.Type = "image" THEN Append(trace, Called("listImages", err))
                     ELSE IF o.Type = "repository" THEN Append(trace, Called("listRepositories", err))
                     ELSE trace
         /\ step' = step + 1
         /\ CheckErrLast(IF o.Type \in {"image", "repository"} THEN err ELSE Nil)
    /\ UNCHANGED <<prog, o, stopCh>>
    /\ UNCHANGED notCli

\* What sshutils IsFileExistV2 returns: whether the path exists, or false with
\* the error of a check that failed.
IsFileExistV2 == {Exists(TRUE, Nil), Exists(FALSE, Nil), Exists(FALSE, RemoteError)}

\* The method returns err: to utils.CheckErr in a command's Run function, to
\* the caller in a direct call.
Return(err) ==
    IF prog \in RegistryCmds THEN CheckErrLast(err) ELSE Ended("returned", err)

\* One step of Delete with the result of the existence check not looked at.
Delete_NoExistenceCheck ==
    /\ prog \in {"delete", "Delete"}
    /\ status = "running"
    /\ cpc = "body"
    /\ \/ /\ step = 0
          /\ o.Tag = ""
          /\ trace' = trace
          /\ Return(Errorf("missing required arguments: 'tag'"))
       \/ /\ step = 0
          /\ o.Tag # ""
          /\ \E r \in IsFileExistV2 :
               /\ trace' = Append(trace, Called("IsFileExistV2", r))
               /\ GoOn("body")
       \/ /\ step = 1
          /\ \E err \in StepResults :
               /\ trace' = Append(trace, Called("rm -rf", err))
               /\ Return(err)
    /\ step' = step + 1
    /\ UNCHANGED <<prog, o, stopCh>>
    /\ UNCHANGED notCli

\* One step of Delete: the tag check and the existence check, whose error is
\* dropped, then the remote remove command.
Delete ==
    /\ prog \in {"delete", "Delete"}
    /\ status = "running"
    /\ cpc = "body"
    /\ \/ /\ step = 0
          /\ o.Tag = ""
          /\ trace' = trace
          /\ Return(Errorf("missing required arguments: 'tag'"))
       \/ /\ step = 0
          /\ o.Tag # ""
          /\ \E r \in IsFileExistV2 :
               /\ trace' = Append(trace, Called("IsFileExistV2", r))
               /\ IF ~r.value
                  THEN Return(Errorf("there is an error in the image name or tag, please check the input"))
                  ELSE GoOn("body")
       \/ /\ step = 1
          /\ \E err \in StepResults :
               /\ trace' = Append(trace, Called("rm -rf", err))
               /\ Return(err)
    /\ step' = step + 1
    /\ UNCHANGED <<prog, o, stopCh>>
    /\ UNCHANGED notCli

\* The errors the agent's collaborators return.
ServiceErrors == {Errorf("message queue unreachable"), Errorf("bad options")}

\* Server.PrepareRun, and the caller going on to Server.Run when it returned nil.
PrepareRun ==
    /\ prog = "agent"
    /\ status = "running"
    /\ cpc = "PrepareRun"
    /\ \/ \E err \in ServiceErrors :
            /\ trace' = Append(trace, Called("NewOperationLog", err))
            /\ Ended("returned", err)
       \/ \E err \in {Nil} \cup ServiceErrors :
            /\ trace' = trace \o <<Called("NewOperationLog", Nil), Called("taskService.PrepareRun", err)>>
            /\ IF err # Nil THEN Ended("returned", err) ELSE GoOn("Run")
    /\ UNCHANGED <<prog, o, step, stopCh>>
    /\ UNCHANGED notCli

\* Server.Run up to the receive from stopCh.
Run ==
    /\ prog = "agent"
    /\ status = "running"
    /\ cpc = "Run"
    /\ \E err \in {Nil} \cup ServiceErrors :
         /\ trace' = Append(trace, Called("taskService.Run", err))
         /\ IF err # Nil THEN Ended("returned", err) ELSE GoOn("stopCh")
    /\ UNCHANGED <<prog, o, step, stopCh>>
    /\ UNCHANGED notCli

\* The stop signal arrives.
StopSignal ==
    /\ prog = "agent"
    /\ ~stopCh
    /\ stopCh' = TRUE
    /\ UNCHANGED <<prog, o, cpc, step, trace, status, cerr>>
    /\ UNCHANGED notCli

\* Server.Run from the receive on, with the receive left out.
RunStopped_NoReceive ==
    /\ prog = "agent"
    /\ status = "running"
    /\ cpc = "stopCh"
    /\ trace' = Append(trace, Called("taskService.Close", Nil))
    /\ Ended("returned", Nil)
    /\ UNCHANGED <<prog, o, step, stopCh>>
    /\ UNCHANGED notCli

\* Server.Run from the receive on: <-stopCh, s.taskService.Close(), return nil.
RunStopped ==
    /\ prog = "agent"
    /\ status = "running"
    /\ cpc = "stopCh"
    /\ stopCh
    /\ trace' = Append(trace, Called("taskService.Close", Nil))
    /\ Ended("returned", Nil)
    /\ UNCHANGED <<prog, o, step, stopCh>>
    /\ UNCHANGED notCli

\* A program starts: a registry command with its flags parsed, the agent
\* server, or a direct call of the exported method Delete.
CliInit ==
    /\ prog \in RegistryCmds \cup {"agent", "Delete"}
    /\ o \in Flags(prog)
    /\ cpc = IF prog = "agent" THEN "PrepareRun" ELSE IF prog = "Delete" THEN "body" ELSE "Complete"
    /\ step = 0
    /\ trace = IF prog = "Delete" THEN <<Called("Delete", Entered)>> ELSE <<>>
    /\ status = "running"
    /\ cerr = Nil
    /\ stopCh = FALSE
    /\ NoWait
    /\ NoCall
    /\ NoHeap
    /\ NoCalls

CliNext ==
    \/ CmdComplete
    \/ CmdValidate
    \/ CmdPreCheck
    \/ CmdAction
    \/ Install
    \/ Uninstall
    \/ Push
    \/ List
    \/ Delete
    \/ PrepareRun
    \/ Run
    \/ StopSignal
    \/ RunStopped

CliSpec == CliInit /\ [][CliNext]_<<vars, others>>


\* The positions of the trace where the program called name.
CallsOf(name) == {i \in 1..Len(trace) : trace[i].call = name}

\* What the task service's Run returned, once Server.Run called it.
RunCalled == CallsOf("taskService.Run") # {}

RunResult == trace[CHOOSE i \in CallsOf("taskService.Run") : TRUE].ret

Closes == Cardinality(CallsOf("taskService.Close"))

\* C29: when the task service's Run returns an error, Server.Run has returned
\* that error in the same step, whether or not the stop signal arrived, and
\* Close is never called.  When it returns nil, Server.Run stays running with
\* no call of Close as long as the stop signal has not arrived; once it has
\* arrived Server.Run can take its last step, and it has returned exactly
\* when Close was called, which happens once, and then it returned nil.
C29_ServerRunLifecycle ==
    (prog = "agent" /\ RunCalled) =>
        /\ Cardinality(CallsOf("taskService.Run")) = 1
        /\ RunResult # Nil =>
             /\ status = "returned"
             /\ cerr = RunResult
             /\ Closes = 0
        /\ (RunResult = Nil /\ ~stopCh) =>
             /\ status = "running"
             /\ cpc = "stopCh"
             /\ Closes = 0
             /\ ~ENABLED RunStopped
        /\ (RunResult = Nil /\ stopCh) =>
             /\ Closes <= 1
             /\ (status = "returned") = (Closes = 1)
             /\ status = "returned" => cerr = Nil
             /\ status = "running" => ENABLED RunStopped
             /\ status \in {"running", "returned"}

\* The whole lifecycle of C29 happened: Run returned nil, the stop signal came,
\* Close was called once and Server.Run returned nil.
C29_Witness ==
    /\ prog = "agent"
    /\ RunCalled
    /\ RunResult = Nil
    /\ stopCh
    /\ Closes = 1
    /\ status = "returned"
    /\ cerr = Nil

GatedCmds == {"deploy", "clean", "push", "delete"}

GatedActions == {Action(p) : p \in GatedCmds}

\* C30: in a deploy, clean, push or delete command the action appears in the
\* trace only as the fourth call, it is the command's own action, and the
\* three calls before it are Complete returning nil, the command's validation
\* returning nil and preCheck returning true, in that order.  A preCheck that
\* returned false is the last call of the command, which then has returned.
C30_ActionOnlyAfterGates ==
    prog \in GatedCmds =>
        /\ \A i \in 1..Len(trace) :
             trace[i].call \in GatedActions =>
                 /\ trace[i].call = Action(prog)
                 /\ i = Len(<<"Complete", "Validate", "preCheck">>) + 1
                 /\ SubSeq(trace, 1, i - 1) =
                        <<Called("Complete", Nil),
                          Called(Validator(prog), Nil),
                          Called("preCheck", Bool(TRUE))>>
        /\ \A i \in CallsOf("preCheck") :
             trace[i].ret = Bool(FALSE) =>
                 /\ i = Len(trace)
                 /\ status = "returned"
                 /\ cerr = Nil

\* A delete command whose three gates passed invoked Delete, which issued the
\* remove command.
C30_Witness ==
    /\ prog = "delete"
    /\ CallsOf("preCheck") # {}
    /\ CallsOf("Delete") # {}
    /\ CallsOf("rm -rf") # {}

\* The calls the command's method made since the Run function called it.
MethodCalled == CallsOf(Action(prog)) # {}

MethodSteps ==
    SubSeq(trace, (CHOOSE i \in CallsOf(Action(prog)) : TRUE) + 1, Len(trace))

\* The steps before the last one all returned nil.
OnlyLastMayFail(steps) == \A j \in 1..(Len(steps) - 1) : steps[j].ret = Nil

AllSucceeded(steps) == \A j \in 1..Len(steps) : steps[j].ret = Nil

\* C31: the steps Install has run are the first ones of processPackage,
\* installDocker, installRegistry, loadImages, removePkg, push, in that order;
\* only the last step run can have failed, and then Install has ended with the
\* error that names this step; Install has returned nil exactly when all six
\* steps ran and succeeded.
C31_InstallStepsInOrder ==
    (prog = "deploy" /\ MethodCalled) =>
        LET order == <<"processPackage", "installDocker", "installRegistry",
                       "loadImages", "removePkg", "push">>
            named == [processPackage |-> "process package error: ssh: exit status 1",
                      installDocker |-> "install docker error: ssh: exit status 1",
                      installRegistry |-> "install registry error: ssh: exit status 1",
                      loadImages |-> "load images error: ssh: exit status 1",
                      removePkg |-> "remove pkg error: ssh: exit status 1",
                      push |-> "push images error: ssh: exit status 1"]
            steps == MethodSteps
            n == Len(steps)
        IN  /\ n <= Len(order)
            /\ \A j \in 1..n : steps[j].call = order[j]
            /\ OnlyLastMayFail(steps)
            /\ ~AllSucceeded(steps) =>
                 /\ status = "exited"
                 /\ cerr = Errorf(named[steps[n].call])
            /\ (status = "returned") = (n = Len(order) /\ AllSucceeded(steps))
            /\ status = "returned" => cerr = Nil
            /\ status = "running" => n < Len(order)

\* Install failed at its third step: processPackage and installDocker returned
\* nil, installRegistry failed, and the command ended with the error that
\* names it.
C31_Witness ==
    /\ prog = "deploy"
    /\ MethodCalled
    /\ Len(MethodSteps) = Len(<<"processPackage", "installDocker", "installRegistry">>)
    /\ MethodSteps[Len(MethodSteps)] = Called("installRegistry", RemoteError)
    /\ status = "exited"
    /\ cerr = Errorf("install registry error: ssh: exit status 1")

C33_RemoveOnlyForExistingTag ==
    (prog \in {"delete", "Delete"} /\ MethodCalled) =>
        LET steps == MethodSteps
            n == Len(steps)
            removes == {j \in 1..n : steps[j].call = "rm -rf"}
            failed == status # "running" /\ cerr # Nil
        IN  /\ Cardinality(removes) <= 1
            /\ \A j \in removes :
                 /\ o.Tag # ""
                 /\ j = n
                 /\ SubSeq(steps, 1, j - 1) = <<Called("IsFileExistV2", Exists(TRUE, Nil))>>
            /\ o.Tag = "" =>
                 /\ steps = <<>>
                 /\ status # "running" =>
                      /\ failed
                      /\ cerr = Errorf("missing required arguments: 'tag'")
            /\ \A j \in 1..n :
                 (steps[j].call = "IsFileExistV2" /\ (~steps[j].ret.value \/ steps[j].ret.err # Nil)) =>
                     /\ n = j
                     /\ failed
                     /\ cerr = Errorf("there is an error in the image name or tag, please check the input")
            /\ (status \in {"returned", "exited"} /\ removes = {}) => failed

\* Delete was called directly with an empty tag: it returned the missing-tag
\* error and made no remote call.
C33_Witness ==
    /\ prog = "Delete"
    /\ o.Tag = ""
    /\ status = "returned"
    /\ cerr = Errorf("missing required arguments: 'tag'")
    /\ MethodSteps = <<>>

=============================================================================
